---- MODULE Spec2Model ----
(***************************************************************************)
(* A model of the CardSight AI Discord bot: the identification client      *)
(* adapter (utils/cardsight.ts), the response formatter                    *)
(* (utils/embedBuilder.ts), the /identify command handler                  *)
(* (commands/identify.ts) and the interaction dispatcher                   *)
(* (events/interactionCreate.ts).                                          *)
(*                                                                         *)
(* JavaScript values are modelled as follows.  An optional value is a      *)
(* sequence of length at most one: <<>> is undefined, <<v>> is v.  An      *)
(* object is a record; reading a property the object does not have yields  *)
(* undefined (Get).  A glyph of the source is written as its short name    *)
(* between colons, and the bullet of the source as an asterisk.  A file    *)
(* name is the sequence of its characters.                                 *)
(***************************************************************************)
EXTENDS Integers, Sequences, FiniteSets, TLC

\* Longest list of detections a remote response carries in the model.
MaxDetections == 3
\* Last value of the wall clock (Date.now()) in the model.
MaxClock == 2

VARIABLES
    now,            \* Date.now()
    icPc,           \* identifyCard under test: "start", "awaiting", "done"
    icArgs,         \* its arguments: filename and optional mimeType
    icStart,        \* its startTime
    icBlobType,     \* the type of the Blob it sent
    icOutcome,      \* how the remote call settled
    icCompletion,   \* how identifyCard ended
    fmtResult,      \* formatter under test: the result it is given
    fmtUrl,         \*   the optional image URL it is given
    fmtCalls,       \*   the embeds built so far, each with the time of the call
    fmtDisplay,     \*   a card and its formatCardDisplay string
    commands,       \* the command registry: the names it maps to a command
    pc,             \* per interaction: where its handling stands
    interaction,    \* per interaction: the inbound event
    replied,        \* per interaction: interaction.replied
    deferred,       \* per interaction: interaction.deferred
    calls,          \* per interaction: the reply/editReply/followUp calls made
    downloads,      \* per interaction: the fetch calls made
    identifyCalls,  \* per interaction: the arguments of its identifyCard calls
    startTime,      \* per interaction: startTime of its identifyCard call
    idResult,       \* per interaction: the result identifyCard returned
    logs,           \* per interaction: the log entries written
    thrown,         \* per interaction: the exception in flight, if any
    readyPc,        \* handleReady: where it stands
    clientUser,     \* handleReady: whether client.user is set
    readySteps,     \* handleReady: the outside calls it has made, in order
    healthOutcome,  \* handleReady: how health.check() settled
    isCardSightValid, \* handleReady: what validateCardSightConnection returned
    readyLogs       \* handleReady: the log entries written

adapterVars == <<icPc, icArgs, icStart, icBlobType, icOutcome, icCompletion>>
formatterVars == <<fmtResult, fmtUrl, fmtCalls, fmtDisplay>>
handlerVars == <<commands, pc, interaction, replied, deferred, calls, downloads,
                 identifyCalls, startTime, idResult, logs, thrown>>
readyVars == <<readyPc, clientUser, readySteps, healthOutcome, isCardSightValid,
               readyLogs>>
vars == <<now, adapterVars, formatterVars, handlerVars, readyVars>>

None == <<>>
Some(v) == <<v>>

\* JavaScript truthiness of an optional boolean, number and string:
\* undefined, false, 0 and "" are falsy.
TruthyBool(o) == o # None /\ o[1]
TruthyNum(o) == o # None /\ o[1] # 0
TruthyStr(o) == o # None /\ o[1] # ""

\* a || b on optional strings.
OrElse(a, b) == IF TruthyStr(a) THEN a ELSE b

\* obj.key, undefined when the object has no such property.
Get(obj, key) == IF key \in DOMAIN obj THEN obj[key] ELSE None

(***************************************************************************)
(* utils/cardsight.ts: the remote service's answers                        *)
(***************************************************************************)

\* Cards as the remote service sends them (the response is typed any).  The
\* first four carry parallel information flat on the card, the way
\* identifyCard reads it; the last carries it nested under `parallel`.
RemoteCard(name, number, isParallel, parallelName, numberedTo, parallel) ==
    [id |-> "card-" \o number, name |-> name, year |-> 2023,
     manufacturer |-> "Topps", releaseName |-> "Chrome",
     setName |-> "Topps Chrome", number |-> number,
     isParallel |-> isParallel, parallelName |-> parallelName,
     numberedTo |-> numberedTo, parallel |-> parallel]

RemoteCards ==
    { RemoteCard("Mike Trout", "27", None, None, None, None),
      RemoteCard("Mike Trout", "27", Some(TRUE), Some("Refractor"), Some(99), None),
      RemoteCard("Aaron Judge", "99", Some(TRUE), Some("Gold"), None, None),
      RemoteCard("Shohei Ohtani", "17", Some(FALSE), Some("Refractor"), Some(50), None),
      RemoteCard("Mookie Betts", "50", None, None, None,
                 Some([name |-> Some("Refractor"), numberedTo |-> Some(99)])) }

\* Detections of a remote response: a confidence and a card; the last one is
\* malformed (no card), so that reading detection.card.id throws.
ConfidenceOf(card) ==
    IF card.name = "Aaron Judge" THEN "Medium"
    ELSE IF card.name = "Shohei Ohtani" THEN "Low"
    ELSE "High"

RemoteDetections ==
    { [confidence |-> ConfidenceOf(k), card |-> Some(k)] : k \in RemoteCards }
    \cup { [confidence |-> "Medium", card |-> None] }

RECURSIVE SeqsUpTo(_, _)
SeqsUpTo(S, n) ==
    IF n = 0 THEN { <<>> }
    ELSE LET shorter == SeqsUpTo(S, n - 1)
         IN  shorter \cup { Append(s, x) : s \in { t \in shorter : Len(t) = n - 1 }, x \in S }

RequestIds == { None, Some("req-1") }

\* result.data of a response that came back without throwing.
RemoteData ==
    [success : { None, Some(FALSE), Some(TRUE) },
     detections : { None } \cup { Some(s) : s \in SeqsUpTo(RemoteDetections, MaxDetections) },
     requestId : RequestIds]

\* What `await cardsightClient.identify.card(blob)` can do: resolve with a
\* response (with or without data), or throw.
ErrorStatuses == { None, Some(0), Some(400), Some(413), Some(429), Some(499),
                   Some(500), Some(503) }

RemoteErrors ==
    [class : { "AuthenticationError", "CardSightAIError" },
     status : ErrorStatuses, requestId : RequestIds, request : RequestIds]
    \cup [class : { "TypeError", "string", "null" },
          status : { None }, requestId : { None }, request : { None }]

RemoteOutcomes ==
    { [kind |-> "resolve", data |-> None] }
    \cup { [kind |-> "resolve", data |-> Some(d)] : d \in RemoteData }
    \cup { [kind |-> "throw", error |-> e] : e \in RemoteErrors }

(***************************************************************************)
(* utils/cardsight.ts: identifyCard                                        *)
(***************************************************************************)

MsgLogicalFailure == "Card identification failed"
MsgAuth == "Authentication failed. Please check your API key."
MsgGeneric == "Failed to identify card"
MsgRateLimit == "Rate limit exceeded. Please try again later."
MsgTooLarge == "Image is too large. Please use a smaller image."
MsgUnavailable == "CardSight service is temporarily unavailable."
MsgUnexpected == "An unexpected error occurred"

\* How a call ends: it returns a value or throws an error.
Return(v) == [kind |-> "return", value |-> v]
Throw(e) == [kind |-> "throw", error |-> e]

TypeError == [class |-> "TypeError", status |-> None, requestId |-> None, request |-> None]

\* FailureResult with the error field forgotten.
FailureResult_NoError(processingTime, message, requestId) ==
    [success |-> FALSE, detections |-> <<>>, processingTime |-> processingTime,
     requestId |-> requestId, error |-> None]

\* The failure results of identifyCard: detections: [], an error message and,
\* on the remote-API branch only, a requestId.
FailureResult(processingTime, message, requestId) ==
    [success |-> FALSE, detections |-> <<>>, processingTime |-> processingTime,
     requestId |-> requestId, error |-> Some(message)]

\* The object literal built for each detection (lines 92-106): exactly these
\* ten card properties, each read from the remote card.
MapDetection(detection) ==
    LET card == detection.card[1]
    IN  [confidence |-> detection.confidence,
         card |-> [id |-> card.id, name |-> card.name, year |-> card.year,
                   manufacturer |-> card.manufacturer,
                   releaseName |-> card.releaseName, setName |-> card.setName,
                   number |-> card.number, isParallel |-> card.isParallel,
                   parallelName |-> card.parallelName,
                   numberedTo |-> card.numberedTo]]

\* IdentifyTry testing only !result.data, not !result.data.success.
IdentifyTry_DataOnly(outcome, processingTime) ==
    IF outcome.kind = "throw" THEN Throw(outcome.error)
    ELSE IF outcome.data = None
    THEN Return(FailureResult(processingTime, MsgLogicalFailure, None))
    ELSE LET data == outcome.data[1]
         IN  IF data.detections = None
             THEN Throw(TypeError)
             ELSE IF \E k \in 1..Len(data.detections[1]) :
                        data.detections[1][k].card = None
             THEN Throw(TypeError)
             ELSE Return([success |-> TRUE,
                          detections |-> [k \in 1..Len(data.detections[1]) |->
                                            MapDetection(data.detections[1][k])],
                          processingTime |-> processingTime,
                          requestId |-> data.requestId,
                          error |-> None])

\* The try block after the remote call has settled with `outcome`.
IdentifyTry(outcome, processingTime) ==
    IF outcome.kind = "throw" THEN Throw(outcome.error)
    ELSE IF outcome.data = None \/ ~TruthyBool(outcome.data[1].success)
    THEN Return(FailureResult(processingTime, MsgLogicalFailure, None))
    ELSE LET data == outcome.data[1]
         IN  IF data.detections = None
             THEN Throw(TypeError)   \* undefined.map
             ELSE IF \E k \in 1..Len(data.detections[1]) :
                        data.detections[1][k].card = None
             THEN Throw(TypeError)   \* detection.card.id of undefined
             ELSE Return([success |-> TRUE,
                          detections |-> [k \in 1..Len(data.detections[1]) |->
                                            MapDetection(data.detections[1][k])],
                          processingTime |-> processingTime,
                          requestId |-> data.requestId,
                          error |-> None])

\* StatusMessage with status > 500 in place of status >= 500.
StatusMessage_Above500(status) ==
    IF status = Some(429) THEN MsgRateLimit
    ELSE IF status = Some(413) THEN MsgTooLarge
    ELSE IF TruthyNum(status) /\ status[1] > 500 THEN MsgUnavailable
    ELSE MsgGeneric

\* The message chosen for a CardSightAIError from its status (lines 142-149).
StatusMessage(status) ==
    IF status = Some(429) THEN MsgRateLimit
    ELSE IF status = Some(413) THEN MsgTooLarge
    ELSE IF TruthyNum(status) /\ status[1] >= 500 THEN MsgUnavailable
    ELSE MsgGeneric

\* IdentifyCatch rethrowing what is no API error.
IdentifyCatch_Rethrow(error, processingTime) ==
    IF error.class = "AuthenticationError"
    THEN Return(FailureResult(processingTime, MsgAuth, None))
    ELSE IF error.class = "CardSightAIError"
    THEN Return(FailureResult(processingTime, StatusMessage(error.status),
                              OrElse(error.requestId, error.request)))
    ELSE Throw(error)

\* The catch block (lines 119-168).
IdentifyCatch(error, processingTime) ==
    IF error.class = "AuthenticationError"
    THEN Return(FailureResult(processingTime, MsgAuth, None))
    ELSE IF error.class = "CardSightAIError"
    THEN Return(FailureResult(processingTime, StatusMessage(error.status),
                              OrElse(error.requestId, error.request)))
    ELSE Return(FailureResult(processingTime, MsgUnexpected, None))

\* identifyCard from the moment the remote call settles.
identifyCard(outcome, processingTime) ==
    LET body == IdentifyTry(outcome, processingTime)
    IN  IF body.kind = "throw" THEN IdentifyCatch(body.error, processingTime)
        ELSE body

(***************************************************************************)
(* types/index.ts and utils/embedBuilder.ts: the response formatter        *)
(***************************************************************************)

ConfidenceColors ==
    [High |-> 65280, Medium |-> 16776960, Low |-> 16711680,
     Error |-> 9109504, Info |-> 39423]

ConfidenceEmojis ==
    [High |-> ":green_circle:", Medium |-> ":yellow_circle:", Low |-> ":red_circle:"]

FooterText == "Powered by CardSight AI"

\* lines.join(sep)
RECURSIVE Join(_, _)
Join(lines, sep) ==
    IF lines = <<>> THEN ""
    ELSE IF Len(lines) = 1 THEN lines[1]
    ELSE lines[1] \o sep \o Join(Tail(lines), sep)

Pad2(n) == IF n < 10 THEN "0" \o ToString(n) ELSE ToString(n)

\* (processingTime / 1000).toFixed(2), for times that are no tie between
\* two hundredths (the inputs of the model end in no 5).
ToFixed2(ms) ==
    LET hundredths == (ms + 5) \div 10
    IN  ToString(hundredths \div 100) \o "." \o Pad2(hundredths % 100)

\* An embed as EmbedBuilder holds it.  setTimestamp() without argument
\* stores Date.now(), passed here as `clock`.
Embed(title, color, description, fields, footer, thumbnail, clock) ==
    [title |-> title, color |-> color, description |-> description,
     fields |-> fields, footer |-> footer, thumbnail |-> thumbnail,
     timestamp |-> clock]

Field(name, value, inline) == [name |-> name, value |-> value, inline |-> inline]

\* if (imageUrl) embed.setThumbnail(imageUrl)
Thumbnail(imageUrl) == IF TruthyStr(imageUrl) THEN imageUrl ELSE None

\* formatCardDisplay without the numbering.
formatCardDisplay_NoNumbering(card) ==
    LET display == ToString(card.year) \o " " \o card.setName \o " - "
                   \o card.name \o " #" \o card.number
    IN  IF TruthyBool(card.isParallel) /\ TruthyStr(card.parallelName)
        THEN display \o " (" \o card.parallelName[1] \o ")"
        ELSE display

\* formatCardDisplay (utils/cardsight.ts)
formatCardDisplay(card) ==
    LET display == ToString(card.year) \o " " \o card.setName \o " - "
                   \o card.name \o " #" \o card.number
    IN  IF TruthyBool(card.isParallel) /\ TruthyStr(card.parallelName)
        THEN display \o " (" \o card.parallelName[1]
             \o (IF TruthyNum(card.numberedTo)
                 THEN " /" \o ToString(card.numberedTo[1]) ELSE "")
             \o ")"
        ELSE display

formatCardDetails(card) ==
    LET lines == (IF card.name # "" THEN << "**Name:** " \o card.name >> ELSE <<>>)
              \o (IF card.number # "" THEN << "**Card Number:** " \o card.number >> ELSE <<>>)
              \o (IF card.year # 0 THEN << "**Year:** " \o ToString(card.year) >> ELSE <<>>)
    IN  IF Len(lines) > 0 THEN Join(lines, "\n") ELSE "No card details available"

formatSetInfo(card) ==
    LET lines == (IF card.setName # "" THEN << "**Set:** " \o card.setName >> ELSE <<>>)
              \o (IF card.releaseName # ""
                  THEN << "**Release:** " \o card.releaseName >> ELSE <<>>)
              \o (IF card.manufacturer # ""
                  THEN << "**Manufacturer:** " \o card.manufacturer >> ELSE <<>>)
    IN  IF Len(lines) > 0 THEN Join(lines, "\n") ELSE "No set information available"

\* formatParallelInfo reads card.parallel?.name and card.parallel?.numberedTo.
formatParallelInfo(card) ==
    LET parallel == Get(card, "parallel")
        name == IF parallel = None THEN None ELSE Get(parallel[1], "name")
        numberedTo == IF parallel = None THEN None ELSE Get(parallel[1], "numberedTo")
    IN  Join((IF TruthyStr(name) THEN << "**Parallel:** " \o name[1] >> ELSE <<>>)
             \o (IF TruthyNum(numberedTo)
                 THEN << "**Numbered:** /" \o ToString(numberedTo[1]) >> ELSE <<>>),
             "\n")

\* createSingleCardEmbed with the clock, not the processing time, in the
\* footer.
createSingleCardEmbed_FooterClock(detection, processingTime, imageUrl, clock) ==
    Embed(":camera: Card Identified!", ConfidenceColors[detection.confidence], None,
          << Field("**Card Details**", formatCardDetails(detection.card), FALSE),
             Field("**Set Information**", formatSetInfo(detection.card), TRUE),
             Field("**Confidence**",
                   ConfidenceEmojis[detection.confidence] \o " "
                   \o detection.confidence, TRUE) >>,
          Some(FooterText \o " * " \o ToString(clock) \o "ms"),
          Thumbnail(imageUrl), clock)

createSingleCardEmbed(detection, processingTime, imageUrl, clock) ==
    LET card == detection.card
        confidence == detection.confidence
        fields == << Field("**Card Details**", formatCardDetails(card), FALSE),
                     Field("**Set Information**", formatSetInfo(card), TRUE),
                     Field("**Confidence**",
                           ConfidenceEmojis[confidence] \o " " \o confidence, TRUE) >>
        \* if (card.parallel): an object, when present, is truthy
        parallelFields == IF Get(card, "parallel") # None
                          THEN << Field("**Parallel Information**",
                                        formatParallelInfo(card), FALSE) >>
                          ELSE <<>>
    IN  Embed(":camera: Card Identified!", ConfidenceColors[confidence], None,
              fields \o parallelFields,
              Some(FooterText \o " * " \o ToFixed2(processingTime) \o "s"),
              Thumbnail(imageUrl), clock)

createMultipleCardsEmbed(detections, processingTime, imageUrl, clock) ==
    Embed(":camera: " \o ToString(Len(detections)) \o " Cards Identified!",
          ConfidenceColors.Info,
          Some("Multiple cards detected in the image:"),
          [index \in 1..Len(detections) |->
              Field("Card " \o ToString(index),
                    "**" \o formatCardDisplay(detections[index].card) \o "**\n"
                    \o ConfidenceEmojis[detections[index].confidence] \o " "
                    \o detections[index].confidence \o " Confidence",
                    FALSE)],
          Some(FooterText \o " * " \o ToFixed2(processingTime) \o "s"),
          Thumbnail(imageUrl), clock)

NoDetectionText ==
    "No trading cards were detected in the image.\n\n"
    \o "**Tips for better results:**\n"
    \o "* Ensure the card is clearly visible\n"
    \o "* Use good lighting\n"
    \o "* Avoid blurry or angled photos\n"
    \o "* Try to capture the entire card"

createNoDetectionEmbed(clock) ==
    Embed(":x: No Cards Detected", ConfidenceColors.Error, Some(NoDetectionText),
          <<>>, Some(FooterText), None, clock)

\* createIdentificationEmbed reporting no detection for a failed result.
createIdentificationEmbed_SuccessFirst(result, imageUrl, clock) ==
    IF ~result.success \/ Len(result.detections) = 0
    THEN createNoDetectionEmbed(clock)
    ELSE IF Len(result.detections) = 1
    THEN createSingleCardEmbed(result.detections[1], result.processingTime,
                               imageUrl, clock)
    ELSE createMultipleCardsEmbed(result.detections, result.processingTime,
                                  imageUrl, clock)

createIdentificationEmbed(result, imageUrl, clock) ==
    IF Len(result.detections) = 0 THEN createNoDetectionEmbed(clock)
    ELSE IF Len(result.detections) = 1
    THEN createSingleCardEmbed(result.detections[1], result.processingTime,
                               imageUrl, clock)
    ELSE createMultipleCardsEmbed(result.detections, result.processingTime,
                                  imageUrl, clock)

createErrorEmbed(errorMessage, requestId, clock) ==
    Embed(":x: Error", ConfidenceColors.Error, Some(errorMessage), <<>>,
          IF TruthyStr(requestId) THEN Some("Request ID: " \o requestId[1]) ELSE None,
          None, clock)

createProcessingEmbed(clock) ==
    Embed(":mag: Identifying Card...", ConfidenceColors.Info,
          Some("Please wait while we identify your card."), <<>>,
          Some(FooterText), None, clock)

createInvalidFileEmbed(clock) ==
    Embed(":x: Invalid File Type", ConfidenceColors.Error,
          Some("Please upload a valid image file.\n\n"
               \o "**Supported formats:**\n"
               \o "* JPEG/JPG\n" \o "* PNG\n" \o "* WebP\n" \o "* GIF"),
          <<>>, Some(FooterText), None, clock)

createFileTooLargeEmbed(clock) ==
    Embed(":x: File Too Large", ConfidenceColors.Error,
          Some("The uploaded file is too large.\n\n"
               \o "**Maximum file size:** 8MB\n\n"
               \o "Please compress or resize your image and try again."),
          <<>>, Some(FooterText), None, clock)

(***************************************************************************)
(* types/index.ts, commands/identify.ts: the inbound events                *)
(***************************************************************************)

\* SupportedImageFormats without image/gif.
SupportedImageFormats_NoGif ==
    { "image/jpeg", "image/jpg", "image/png", "image/webp" }

SupportedImageFormats ==
    { "image/jpeg", "image/jpg", "image/png", "image/webp", "image/gif" }

MAX_FILE_SIZE == 8 * 1024 * 1024

\* The characters the sanitizer keeps: [a-zA-Z0-9._-].
SafeChars ==
    { "a", "b", "c", "d", "e", "f", "g", "h", "i", "j", "k", "l", "m",
      "n", "o", "p", "q", "r", "s", "t", "u", "v", "w", "x", "y", "z",
      "A", "B", "C", "D", "E", "F", "G", "H", "I", "J", "K", "L", "M",
      "N", "O", "P", "Q", "R", "S", "T", "U", "V", "W", "X", "Y", "Z",
      "0", "1", "2", "3", "4", "5", "6", "7", "8", "9", ".", "_", "-" }

MaxFilenameLength == 255

\* name.replace(/[^a-zA-Z0-9._-]/g, '_').substring(0, 255), on a file name
\* given as its sequence of characters.
\* The sanitizer without its .substring(0, 255).
SanitizeFilename_NoTruncate(name) ==
    [k \in 1..Len(name) |-> IF name[k] \in SafeChars THEN name[k] ELSE "_"]

SanitizeFilename(name) ==
    LET replaced == [k \in 1..Len(name) |->
                        IF name[k] \in SafeChars THEN name[k] ELSE "_"]
    IN  SubSeq(replaced, 1, IF Len(replaced) < MaxFilenameLength
                            THEN Len(replaced) ELSE MaxFilenameLength)

\* A file name of more than 255 characters, with a separator in it.
LongName ==
    [k \in 1..(MaxFilenameLength + 2) |-> IF k % 100 = 0 THEN "/" ELSE "a"]

\* card.jpg, ../../etc/passwd.jpg and the long name.
AttachmentNames ==
    { << "c", "a", "r", "d", ".", "j", "p", "g" >>,
      << ".", ".", "/", ".", ".", "/", "e", "t", "c", "/",
         "p", "a", "s", "s", "w", "d", ".", "j", "p", "g" >>,
      LongName }

\* attachment.contentType as the platform declares it.
ContentTypes ==
    { None, Some(""), Some("image/jpeg"), Some("image/jpg"), Some("image/png"),
      Some("image/webp"), Some("image/gif"), Some("application/pdf"),
      Some("IMAGE/PNG") }

AttachmentSizes == { 1024, MAX_FILE_SIZE - 1, MAX_FILE_SIZE, MAX_FILE_SIZE + 1 }

Attachments ==
    [name : AttachmentNames, size : AttachmentSizes, contentType : ContentTypes,
     url : { "https://cdn.example/card.jpg" }]

\* Inbound interactions: a chat-input command with its name and its image
\* attachment, or an interaction of another kind.
Interactions ==
    [isChatInputCommand : { TRUE }, commandName : { "identify" },
     attachment : Attachments]
    \cup [isChatInputCommand : { TRUE }, commandName : { "ping" },
          attachment : { None }]
    \cup [isChatInputCommand : { FALSE }, commandName : { "" },
          attachment : { None }]

(***************************************************************************)
(* The chat platform's reply operations (discord.js), as the handlers use  *)
(* them: reply() refuses an interaction already replied to or deferred,    *)
(* editReply() and followUp() refuse one neither replied to nor deferred;  *)
(* a call that is not refused goes to the platform and succeeds or fails,  *)
(* and a successful reply() sets interaction.replied.                      *)
(***************************************************************************)

PlatformOutcomes(i, op) ==
    IF op = "reply"
    THEN IF replied[i] \/ deferred[i] THEN { "refused" } ELSE { "ok", "failed" }
    ELSE IF ~replied[i] /\ ~deferred[i] THEN { "refused" } ELSE { "ok", "failed" }

PlatformCall(by, op, embed, ephemeral, outcome) ==
    [by |-> by, op |-> op, embed |-> embed, ephemeral |-> ephemeral,
     outcome |-> outcome]

\* The call is recorded and, for a successful reply(), replied is set.
Platform(i, call) ==
    /\ calls' = [calls EXCEPT ![i] = Append(@, call)]
    /\ replied' = [replied EXCEPT ![i] = @ \/ (call.op = "reply" /\ call.outcome = "ok")]

Log(i, entries) == logs' = [logs EXCEPT ![i] = @ \cup entries]

LogEntry(level, message, fileName) ==
    [level |-> level, message |-> message, fileName |-> fileName]

\* logger.error / logError with the error that was caught.
LogCaught(message, error) ==
    [level |-> "error", message |-> message, fileName |-> None, error |-> error]

\* What a reply/editReply/followUp call throws when it does not succeed.
PlatformError(op, outcome) ==
    IF outcome = "failed" THEN Some("DiscordAPIError")
    ELSE IF outcome = "refused"
    THEN Some(IF op = "reply" THEN "InteractionAlreadyReplied"
              ELSE "InteractionNotReplied")
    ELSE None

Raise(i, error) == thrown' = [thrown EXCEPT ![i] = error]

\* index.ts lines 16-20: the registry holds the identify command; no
\* interaction has arrived.
InitHandler(ids) ==
    /\ commands = { "identify" }
    /\ pc = [i \in ids |-> "idle"]
    /\ interaction = [i \in ids |-> None]
    /\ replied = [i \in ids |-> FALSE]
    /\ deferred = [i \in ids |-> FALSE]
    /\ calls = [i \in ids |-> <<>>]
    /\ downloads = [i \in ids |-> 0]
    /\ identifyCalls = [i \in ids |-> <<>>]
    /\ startTime = [i \in ids |-> 0]
    /\ idResult = [i \in ids |-> None]
    /\ logs = [i \in ids |-> {}]
    /\ thrown = [i \in ids |-> None]

(***************************************************************************)
(* The wall clock                                                          *)
(***************************************************************************)

Tick ==
    /\ now < MaxClock
    /\ now' = now + 1
    /\ UNCHANGED <<adapterVars, formatterVars, handlerVars, readyVars>>

(***************************************************************************)
(* identifyCard called on its own, with every answer of the remote service *)
(***************************************************************************)

MimeTypes == { None, Some(""), Some("image/png") }

\* Lines 63-76: startTime, the debug log, the Blob and the remote call.
\* The Blob's type is mimeType || 'image/jpeg'.
IdentifyCall ==
    /\ icPc = "start"
    /\ icStart' = now
    /\ icBlobType' = OrElse(icArgs.mimeType, Some("image/jpeg"))
    /\ icPc' = "awaiting"
    /\ UNCHANGED <<now, icArgs, icOutcome, icCompletion, formatterVars, handlerVars, readyVars>>

\* Lines 76-168: the remote call settles and identifyCard runs to its end.
IdentifySettle ==
    /\ icPc = "awaiting"
    /\ \E outcome \in RemoteOutcomes :
          /\ icOutcome' = Some(outcome)
          /\ icCompletion' = Some(identifyCard(outcome, now - icStart))
    /\ icPc' = "done"
    /\ UNCHANGED <<now, icArgs, icStart, icBlobType, formatterVars, handlerVars, readyVars>>

\* handleReady is not under study.
ReadyIdle ==
    /\ readyPc = "idle"
    /\ clientUser = FALSE
    /\ readySteps = <<>>
    /\ healthOutcome = None
    /\ isCardSightValid = None
    /\ readyLogs = {}

AdapterIdle ==
    /\ icPc = "idle"
    /\ icArgs = None
    /\ icStart = 0
    /\ icBlobType = None
    /\ icOutcome = None
    /\ icCompletion = None

FormatterIdle ==
    /\ fmtResult = None
    /\ fmtUrl = None
    /\ fmtCalls = <<>>
    /\ fmtDisplay = None

InitAdapter ==
    /\ now = 0
    /\ ReadyIdle
    /\ FormatterIdle
    /\ InitHandler({})
    /\ icPc = "start"
    /\ icArgs \in [filename : { "card.jpg" }, mimeType : MimeTypes]
    /\ icStart = 0
    /\ icBlobType = None
    /\ icOutcome = None
    /\ icCompletion = None

NextAdapter == Tick \/ IdentifyCall \/ IdentifySettle

SpecAdapter == InitAdapter /\ [][NextAdapter]_vars

(***************************************************************************)
(* The formatter called on its own, with every result of its input type    *)
(***************************************************************************)

\* CardDetection values: what identifyCard builds from well-formed remote
\* detections.
CardDetections == { MapDetection(d) : d \in { r \in RemoteDetections : r.card # None } }

ProcessingTimes == { 0, 1234 }

\* CardIdentificationResult values.  The formatter is exported, so success
\* and detections vary independently.
IdentificationResults ==
    { [success |-> ok, detections |-> ds, processingTime |-> t,
       requestId |-> e[1], error |-> e[2]] :
        ok \in BOOLEAN, ds \in SeqsUpTo(CardDetections, MaxDetections),
        t \in ProcessingTimes,
        e \in { <<None, None>>, <<Some("req-1"), Some(MsgRateLimit)>> } }

ImageUrls == { None, Some("https://cdn.example/card.jpg") }

\* createIdentificationEmbed(result, imageUrl), at most twice.
CallIdentificationEmbed ==
    /\ fmtResult # None
    /\ fmtDisplay = None
    /\ Len(fmtCalls) < 2
    /\ fmtCalls' = Append(fmtCalls,
                          [fn |-> "createIdentificationEmbed", at |-> now,
                           embed |-> createIdentificationEmbed(fmtResult, fmtUrl, now)])
    /\ UNCHANGED <<now, adapterVars, handlerVars, readyVars, fmtResult, fmtUrl, fmtDisplay>>

\* createErrorEmbed(result.error || 'Failed to identify card',
\* result.requestId), as the command handler calls it; at most twice.
CallErrorEmbed ==
    /\ fmtResult # None
    /\ fmtDisplay = None
    /\ Len(fmtCalls) < 2
    /\ fmtCalls' = Append(fmtCalls,
                          [fn |-> "createErrorEmbed", at |-> now,
                           embed |-> createErrorEmbed(
                                        OrElse(fmtResult.error, Some(MsgGeneric))[1],
                                        fmtResult.requestId, now)])
    /\ UNCHANGED <<now, adapterVars, handlerVars, readyVars, fmtResult, fmtUrl, fmtDisplay>>

\* formatCardDisplay(card) on a card of the result, in a run that builds
\* no embed.
CallFormatCardDisplay ==
    /\ fmtResult # None
    /\ fmtDisplay = None
    /\ fmtCalls = <<>>
    /\ \E k \in 1..Len(fmtResult.detections) :
          fmtDisplay' = Some([card |-> fmtResult.detections[k].card,
                              text |-> formatCardDisplay(fmtResult.detections[k].card)])
    /\ UNCHANGED <<now, adapterVars, handlerVars, readyVars, fmtResult, fmtUrl, fmtCalls>>

InitFormatter ==
    /\ now = 0
    /\ ReadyIdle
    /\ AdapterIdle
    /\ InitHandler({})
    /\ fmtResult \in IdentificationResults
    /\ fmtUrl \in ImageUrls
    /\ fmtCalls = <<>>
    /\ fmtDisplay = None

NextFormatter ==
    Tick \/ CallIdentificationEmbed \/ CallErrorEmbed \/ CallFormatCardDisplay

SpecFormatter == InitFormatter /\ [][NextFormatter]_vars

(***************************************************************************)
(* events/interactionCreate.ts and commands/identify.ts: one action per    *)
(* stretch of code between two awaits, the awaited call's outcome included *)
(***************************************************************************)

MsgUnknownCommand == "Unknown command."
MsgCommandError ==
    "There was an error while executing this command.\n"
    \o "Please try again later or contact support if the issue persists."
MsgProcessFailed ==
    "Failed to process the image. Please try again with a different image."

\* client.on(Events.InteractionCreate, ...): an interaction, one of
\* `events`, arrives.
InteractionCreateFrom(i, events) ==
    /\ pc[i] = "idle"
    /\ \E event \in events :
          interaction' = [interaction EXCEPT ![i] = Some(event)]
    /\ pc' = [pc EXCEPT ![i] = "dispatch"]
    /\ UNCHANGED <<now, adapterVars, formatterVars, readyVars, commands, replied, deferred,
                   calls, downloads, identifyCalls, startTime, idResult, logs,
                   thrown>>

InteractionCreate(i) == InteractionCreateFrom(i, Interactions)

\* The dispatcher answering an unknown command with a public reply.
Dispatch_PublicReply(i) ==
    /\ pc[i] = "dispatch"
    /\ LET event == interaction[i][1]
       IN  IF ~event.isChatInputCommand
           THEN /\ pc' = [pc EXCEPT ![i] = "resolved"]
                /\ UNCHANGED <<calls, replied, logs, thrown>>
           ELSE IF event.commandName \notin commands
           THEN \E outcome \in PlatformOutcomes(i, "reply") :
                  /\ Platform(i, PlatformCall("dispatcher", "reply",
                                  createErrorEmbed(MsgUnknownCommand, None, now),
                                  FALSE, outcome))
                  /\ Log(i, { LogEntry("warn", "Unknown command", None) })
                  /\ Raise(i, PlatformError("reply", outcome))
                  /\ pc' = [pc EXCEPT ![i] =
                               IF outcome = "ok" THEN "resolved" ELSE "rejected"]
           ELSE /\ Log(i, { LogEntry("info", "command-start", None) })
                /\ pc' = [pc EXCEPT ![i] = "execute"]
                /\ UNCHANGED <<calls, replied, thrown>>
    /\ UNCHANGED <<now, adapterVars, formatterVars, readyVars, commands, interaction, deferred,
                   downloads, identifyCalls, startTime, idResult>>

\* handleInteractionCreate up to command.execute (lines 16-44).  The reply
\* for an unknown command is awaited outside any try: when it throws, the
\* promise of handleInteractionCreate rejects.
Dispatch(i) ==
    /\ pc[i] = "dispatch"
    /\ LET event == interaction[i][1]
       IN  IF ~event.isChatInputCommand
           THEN /\ pc' = [pc EXCEPT ![i] = "resolved"]
                /\ UNCHANGED <<calls, replied, logs, thrown>>
           ELSE IF event.commandName \notin commands
           THEN \E outcome \in PlatformOutcomes(i, "reply") :
                  /\ Platform(i, PlatformCall("dispatcher", "reply",
                                  createErrorEmbed(MsgUnknownCommand, None, now),
                                  TRUE, outcome))
                  /\ Log(i, { LogEntry("warn", "Unknown command", None) })
                  /\ Raise(i, PlatformError("reply", outcome))
                  /\ pc' = [pc EXCEPT ![i] =
                               IF outcome = "ok" THEN "resolved" ELSE "rejected"]
           ELSE /\ Log(i, { LogEntry("info", "command-start", None) })
                /\ pc' = [pc EXCEPT ![i] = "execute"]
                /\ UNCHANGED <<calls, replied, thrown>>
    /\ UNCHANGED <<now, adapterVars, formatterVars, readyVars, commands, interaction, deferred,
                   downloads, identifyCalls, startTime, idResult>>

\* Validate with size >= MAX_FILE_SIZE in place of size > MAX_FILE_SIZE.
Validate_AtLeast(attachment) ==
    IF ~TruthyStr(attachment.contentType)
       \/ attachment.contentType[1] \notin SupportedImageFormats
    THEN "invalid-file"
    ELSE IF attachment.size >= MAX_FILE_SIZE THEN "too-large"
    ELSE "ok"

\* Validate with the size checked before the content type.
Validate_SizeFirst(attachment) ==
    IF attachment.size > MAX_FILE_SIZE THEN "too-large"
    ELSE IF ~TruthyStr(attachment.contentType)
            \/ attachment.contentType[1] \notin SupportedImageFormats
    THEN "invalid-file"
    ELSE "ok"

\* Lines 116-132: the content type is checked first, then the size.
Validate(attachment) ==
    IF ~TruthyStr(attachment.contentType)
       \/ attachment.contentType[1] \notin SupportedImageFormats
    THEN "invalid-file"
    ELSE IF attachment.size > MAX_FILE_SIZE THEN "too-large"
    ELSE "ok"

\* execute with the placeholder reply inside its try block: a failure of
\* that reply goes to the handler's own catch.
ExecuteBegin_ReplyInsideTry(i) ==
    /\ pc[i] = "execute"
    /\ LET attachment == interaction[i][1].attachment
           verdict == Validate(attachment)
           embed == IF verdict = "invalid-file" THEN createInvalidFileEmbed(now)
                    ELSE IF verdict = "too-large" THEN createFileTooLargeEmbed(now)
                    ELSE createProcessingEmbed(now)
       IN  \E outcome \in PlatformOutcomes(i, "reply") :
             /\ Platform(i, PlatformCall("handler", "reply", embed,
                                         verdict # "ok", outcome))
             /\ Log(i, { LogEntry("debug", "Identify command invoked",
                                  Some(SanitizeFilename(attachment.name))) }
                       \cup (IF outcome = "ok" /\ verdict # "ok"
                             THEN { LogEntry("info", "command-success", None) }
                             ELSE {}))
             /\ Raise(i, PlatformError("reply", outcome))
             /\ pc' = [pc EXCEPT ![i] =
                          IF outcome # "ok"
                          THEN (IF verdict = "ok" THEN "exec_catch"
                                ELSE "dispatch_catch")
                          ELSE IF verdict # "ok" THEN "resolved"
                          ELSE "fetch"]
    /\ UNCHANGED <<now, adapterVars, formatterVars, readyVars, commands, interaction, deferred,
                   downloads, identifyCalls, startTime, idResult>>

\* execute up to its first await (lines 100-137): the file name is
\* sanitized and logged, the attachment validated, and one reply sent: the
\* invalid-file or the too-large message (ephemeral, then return), or the
\* processing placeholder.
ExecuteBegin(i) ==
    /\ pc[i] = "execute"
    /\ LET attachment == interaction[i][1].attachment
           verdict == Validate(attachment)
           embed == IF verdict = "invalid-file" THEN createInvalidFileEmbed(now)
                    ELSE IF verdict = "too-large" THEN createFileTooLargeEmbed(now)
                    ELSE createProcessingEmbed(now)
       IN  \E outcome \in PlatformOutcomes(i, "reply") :
             /\ Platform(i, PlatformCall("handler", "reply", embed,
                                         verdict # "ok", outcome))
             /\ Log(i, { LogEntry("debug", "Identify command invoked",
                                  Some(SanitizeFilename(attachment.name))) }
                       \cup (IF outcome = "ok" /\ verdict # "ok"
                             THEN { LogEntry("info", "command-success", None) }
                             ELSE {}))
             /\ Raise(i, PlatformError("reply", outcome))
             /\ pc' = [pc EXCEPT ![i] =
                          IF outcome # "ok" THEN "dispatch_catch"
                          ELSE IF verdict # "ok" THEN "resolved"
                          ELSE "fetch"]
    /\ UNCHANGED <<now, adapterVars, formatterVars, readyVars, commands, interaction, deferred,
                   downloads, identifyCalls, startTime, idResult>>

\* Line 143: the Error the handler throws for a response that is not ok,
\* with the response's statusText in its message.
DownloadErrors ==
    { Some("Failed to download image: Not Found"),
      Some("Failed to download image: Forbidden") }

\* Line 141: what fetch rejects with.
NetworkErrors ==
    { Some("fetch failed"), Some("getaddrinfo ENOTFOUND cdn.example") }

\* The download tried a second time when the first attempt fails.
Fetch_Retry(i) ==
    /\ pc[i] = "fetch"
    /\ downloads' = [downloads EXCEPT ![i] = @ + 1]
    /\ \E error \in { None } \cup DownloadErrors \cup NetworkErrors :
          /\ Raise(i, error)
          /\ pc' = [pc EXCEPT ![i] = IF error = None THEN "body"
                                     ELSE IF downloads[i] = 0 THEN "fetch"
                                     ELSE "exec_catch"]
    /\ UNCHANGED <<now, adapterVars, formatterVars, readyVars, commands, interaction, replied,
                   deferred, calls, identifyCalls, startTime, idResult, logs>>

\* Lines 141-144: fetch(attachment.url) resolves with an ok response, with a
\* response that is not ok (the handler throws), or rejects.
Fetch(i) ==
    /\ pc[i] = "fetch"
    /\ downloads' = [downloads EXCEPT ![i] = @ + 1]
    /\ \E error \in { None } \cup DownloadErrors \cup NetworkErrors :
          /\ Raise(i, error)
          /\ pc' = [pc EXCEPT ![i] = IF error = None THEN "body" ELSE "exec_catch"]
    /\ UNCHANGED <<now, adapterVars, formatterVars, readyVars, commands, interaction, replied,
                   deferred, calls, identifyCalls, startTime, idResult, logs>>

\* Lines 146-147: response.arrayBuffer() resolves or rejects.
ReadBody(i) ==
    /\ pc[i] = "body"
    /\ \E outcome \in { "ok", "throws" } :
          /\ Raise(i, IF outcome = "throws" THEN Some("body read failed") ELSE None)
          /\ pc' = [pc EXCEPT ![i] = IF outcome = "ok" THEN "identify" ELSE "exec_catch"]
    /\ UNCHANGED <<now, adapterVars, formatterVars, readyVars, commands, interaction, replied,
                   deferred, calls, downloads, identifyCalls, startTime, idResult,
                   logs>>

\* identifyCard called with attachment.name as it came in.
IdentifyCardCall_RawName(i) ==
    /\ pc[i] = "identify"
    /\ LET attachment == interaction[i][1].attachment
           filename == attachment.name
           mimeType == OrElse(attachment.contentType, None)
       IN  /\ identifyCalls' = [identifyCalls EXCEPT ![i] =
                  Append(@, [filename |-> filename, mimeType |-> mimeType,
                             blobType |-> OrElse(mimeType, Some("image/jpeg"))])]
           /\ Log(i, { LogEntry("debug", "Starting card identification for file",
                                Some(filename)) })
    /\ startTime' = [startTime EXCEPT ![i] = now]
    /\ pc' = [pc EXCEPT ![i] = "identify_await"]
    /\ UNCHANGED <<now, adapterVars, formatterVars, readyVars, commands, interaction, replied,
                   deferred, calls, downloads, idResult, thrown>>

\* Lines 150-154 and identifyCard lines 63-76: identifyCard is called with
\* the bytes, the sanitized file name and attachment.contentType ||
\* undefined, takes its startTime, logs and calls the remote service.
IdentifyCardCall(i) ==
    /\ pc[i] = "identify"
    /\ LET attachment == interaction[i][1].attachment
           filename == SanitizeFilename(attachment.name)
           mimeType == OrElse(attachment.contentType, None)
       IN  /\ identifyCalls' = [identifyCalls EXCEPT ![i] =
                  Append(@, [filename |-> filename, mimeType |-> mimeType,
                             blobType |-> OrElse(mimeType, Some("image/jpeg"))])]
           /\ Log(i, { LogEntry("debug", "Starting card identification for file",
                                Some(filename)) })
    /\ startTime' = [startTime EXCEPT ![i] = now]
    /\ pc' = [pc EXCEPT ![i] = "identify_await"]
    /\ UNCHANGED <<now, adapterVars, formatterVars, readyVars, commands, interaction, replied,
                   deferred, calls, downloads, idResult, thrown>>

\* The answers of the remote service tried in the handler.
HandlerRemoteOutcomes ==
    { [kind |-> "resolve", data |-> None] }
    \cup { [kind |-> "resolve",
            data |-> Some([success |-> ok, detections |-> ds,
                           requestId |-> Some("req-1")])] :
             ok \in { None, Some(TRUE) },
             ds \in { None } \cup
                    { Some(seq) : seq \in SeqsUpTo({ d \in RemoteDetections :
                                     /\ d.card # None
                                     /\ d.card[1].name \in { "Mike Trout" } }, 2) } }
    \cup { [kind |-> "throw", error |-> e] :
             e \in { r \in RemoteErrors :
                       /\ r.status \in { None, Some(429) }
                       /\ r.requestId = None
                       /\ r.class \in { "AuthenticationError", "CardSightAIError",
                                         "TypeError", "string" } } }

\* The logError call of identifyCard's catch block (lines 125, 134, 160)
\* for the error it caught, if it caught one.
IdentifyCaught(outcome, processingTime) ==
    LET body == IdentifyTry(outcome, processingTime)
    IN  IF body.kind # "throw" THEN {}
        ELSE { LogCaught(IF body.error.class = "AuthenticationError"
                         THEN "Authentication failed with CardSight API"
                         ELSE IF body.error.class = "CardSightAIError"
                         THEN "CardSight API error"
                         ELSE "Unexpected error during card identification",
                         Some(body.error.class)) }

\* identifyCard lines 76-168: the remote call settles and identifyCard ends;
\* what it returns is the handler's result.
IdentifyCardSettleFrom(i, outcomes) ==
    /\ pc[i] = "identify_await"
    /\ \E outcome \in outcomes :
          LET completion == identifyCard(outcome, now - startTime[i])
          IN  /\ Log(i, { LogEntry("info", "CardSight API call", None) }
                        \cup IdentifyCaught(outcome, now - startTime[i]))
              /\ IF completion.kind = "return"
                 THEN /\ idResult' = [idResult EXCEPT ![i] = Some(completion.value)]
                      /\ pc' = [pc EXCEPT ![i] = "edit"]
                      /\ UNCHANGED thrown
                 ELSE /\ pc' = [pc EXCEPT ![i] = "exec_catch"]
                      /\ Raise(i, Some(completion.error.class))
                      /\ UNCHANGED idResult
    /\ UNCHANGED <<now, adapterVars, formatterVars, readyVars, commands, interaction, replied,
                   deferred, calls, downloads, identifyCalls, startTime>>

IdentifyCardSettle(i) == IdentifyCardSettleFrom(i, HandlerRemoteOutcomes)

\* The result edit reading a result kept in one place for all invocations.
EditReply_SharedResult(i) ==
    /\ pc[i] = "edit"
    /\ LET r == idResult[CHOOSE j \in DOMAIN idResult : idResult[j] # None][1]
           embed == IF r.success
                    THEN createIdentificationEmbed(
                             r, Some(interaction[i][1].attachment.url), now)
                    ELSE createErrorEmbed(OrElse(r.error, Some(MsgGeneric))[1],
                                          r.requestId, now)
       IN  \E outcome \in PlatformOutcomes(i, "editReply") :
             /\ Platform(i, PlatformCall("handler", "editReply", embed, FALSE, outcome))
             /\ Log(i, IF outcome # "ok" THEN {}
                       ELSE { LogEntry("info", "command-success", None) })
             /\ Raise(i, PlatformError("editReply", outcome))
             /\ pc' = [pc EXCEPT ![i] =
                          IF outcome = "ok" THEN "resolved" ELSE "exec_catch"]
    /\ UNCHANGED <<now, adapterVars, formatterVars, readyVars, commands, interaction, deferred,
                   downloads, identifyCalls, startTime, idResult>>

\* The result edit building its embed without the attachment URL.
EditReply_NoThumbnail(i) ==
    /\ pc[i] = "edit"
    /\ LET r == idResult[i][1]
           embed == IF r.success
                    THEN createIdentificationEmbed(r, None, now)
                    ELSE createErrorEmbed(OrElse(r.error, Some(MsgGeneric))[1],
                                          r.requestId, now)
       IN  \E outcome \in PlatformOutcomes(i, "editReply") :
             /\ Platform(i, PlatformCall("handler", "editReply", embed, FALSE, outcome))
             /\ Log(i, IF outcome # "ok" THEN {}
                       ELSE { LogEntry("info", "command-success", None) })
             /\ Raise(i, PlatformError("editReply", outcome))
             /\ pc' = [pc EXCEPT ![i] =
                          IF outcome = "ok" THEN "resolved" ELSE "exec_catch"]
    /\ UNCHANGED <<now, adapterVars, formatterVars, readyVars, commands, interaction, deferred,
                   downloads, identifyCalls, startTime, idResult>>

\* Lines 157-176: the embed is built from the result and the placeholder is
\* edited.
EditReply(i) ==
    /\ pc[i] = "edit"
    /\ LET r == idResult[i][1]
           embed == IF r.success
                    THEN createIdentificationEmbed(
                             r, Some(interaction[i][1].attachment.url), now)
                    ELSE createErrorEmbed(OrElse(r.error, Some(MsgGeneric))[1],
                                          r.requestId, now)
       IN  \E outcome \in PlatformOutcomes(i, "editReply") :
             /\ Platform(i, PlatformCall("handler", "editReply", embed, FALSE, outcome))
             /\ Log(i, IF outcome # "ok" THEN {}
                       ELSE { LogEntry("info", "command-success", None) }
                            \cup (IF r.success /\ Len(r.detections) > 0
                                  THEN { LogEntry("info",
                                           "Card identification successful", None) }
                                  ELSE {}))
             /\ Raise(i, PlatformError("editReply", outcome))
             /\ pc' = [pc EXCEPT ![i] =
                          IF outcome = "ok" THEN "resolved" ELSE "exec_catch"]
    /\ UNCHANGED <<now, adapterVars, formatterVars, readyVars, commands, interaction, deferred,
                   downloads, identifyCalls, startTime, idResult>>

\* The handler's catch showing the message of the error it caught.
ExecuteCatch_ShowsError(i) ==
    /\ pc[i] = "exec_catch"
    /\ \E outcome \in PlatformOutcomes(i, "editReply") :
          /\ Platform(i, PlatformCall("handler", "editReply",
                          createErrorEmbed(thrown[i][1], None, now),
                          FALSE, outcome))
          /\ Log(i, { LogCaught("Failed to process card identification",
                                thrown[i]) }
                    \cup (IF outcome = "ok"
                          THEN { LogEntry("info", "command-success", None) }
                          ELSE {}))
          /\ Raise(i, PlatformError("editReply", outcome))
          /\ pc' = [pc EXCEPT ![i] =
                       IF outcome = "ok" THEN "resolved" ELSE "dispatch_catch"]
    /\ UNCHANGED <<now, adapterVars, formatterVars, readyVars, commands, interaction, deferred,
                   downloads, identifyCalls, startTime, idResult>>

\* The handler's catch only logging, with no edit of the placeholder.
ExecuteCatch_LogOnly(i) ==
    /\ pc[i] = "exec_catch"
    /\ Log(i, { LogCaught("Failed to process card identification", thrown[i]) })
    /\ Raise(i, None)
    /\ pc' = [pc EXCEPT ![i] = "resolved"]
    /\ UNCHANGED <<now, adapterVars, formatterVars, readyVars, commands, interaction, replied,
                   deferred, calls, downloads, identifyCalls, startTime, idResult>>

\* Lines 177-190: the handler's catch logs and edits the placeholder to the
\* fixed failure message; when that edit throws, so does execute.
ExecuteCatch(i) ==
    /\ pc[i] = "exec_catch"
    /\ \E outcome \in PlatformOutcomes(i, "editReply") :
          /\ Platform(i, PlatformCall("handler", "editReply",
                          createErrorEmbed(MsgProcessFailed, None, now),
                          FALSE, outcome))
          /\ Log(i, { LogCaught("Failed to process card identification",
                                thrown[i]) }
                    \cup (IF outcome = "ok"
                          THEN { LogEntry("info", "command-success", None) }
                          ELSE {}))
          /\ Raise(i, PlatformError("editReply", outcome))
          /\ pc' = [pc EXCEPT ![i] =
                       IF outcome = "ok" THEN "resolved" ELSE "dispatch_catch"]
    /\ UNCHANGED <<now, adapterVars, formatterVars, readyVars, commands, interaction, deferred,
                   downloads, identifyCalls, startTime, idResult>>

\* The dispatcher's catch sending its follow-up without the ephemeral flag.
DispatchCatch_PublicFollowUp(i) ==
    /\ pc[i] = "dispatch_catch"
    /\ LET op == IF deferred[i] THEN "editReply"
                 ELSE IF replied[i] THEN "followUp" ELSE "reply"
       IN  \E outcome \in PlatformOutcomes(i, op) :
             /\ Platform(i, PlatformCall("dispatcher", op,
                             createErrorEmbed(MsgCommandError, None, now),
                             op = "reply", outcome))
             /\ Log(i, { LogCaught("Error executing command", thrown[i]) }
                       \cup (IF outcome = "ok" THEN {}
                             ELSE { LogCaught("Failed to send error message to user",
                                              PlatformError(op, outcome)) }))
    /\ Raise(i, None)
    /\ pc' = [pc EXCEPT ![i] = "resolved"]
    /\ UNCHANGED <<now, adapterVars, formatterVars, readyVars, commands, interaction, deferred,
                   downloads, identifyCalls, startTime, idResult>>

\* The dispatcher's catch always using reply().
DispatchCatch_AlwaysReply(i) ==
    /\ pc[i] = "dispatch_catch"
    /\ \E outcome \in PlatformOutcomes(i, "reply") :
          /\ Platform(i, PlatformCall("dispatcher", "reply",
                          createErrorEmbed(MsgCommandError, None, now),
                          TRUE, outcome))
          /\ Log(i, { LogCaught("Error executing command", thrown[i]) }
                    \cup (IF outcome = "ok" THEN {}
                          ELSE { LogCaught("Failed to send error message to user",
                                           PlatformError("reply", outcome)) }))
    /\ Raise(i, None)
    /\ pc' = [pc EXCEPT ![i] = "resolved"]
    /\ UNCHANGED <<now, adapterVars, formatterVars, readyVars, commands, interaction, deferred,
                   downloads, identifyCalls, startTime, idResult>>

\* handleInteractionCreate lines 47-71: the dispatcher's catch sends its
\* error message by editReply, followUp or reply, and swallows a failure of
\* that call.
DispatchCatch(i) ==
    /\ pc[i] = "dispatch_catch"
    /\ LET op == IF deferred[i] THEN "editReply"
                 ELSE IF replied[i] THEN "followUp" ELSE "reply"
       IN  \E outcome \in PlatformOutcomes(i, op) :
             /\ Platform(i, PlatformCall("dispatcher", op,
                             createErrorEmbed(MsgCommandError, None, now),
                             op # "editReply", outcome))
             /\ Log(i, { LogCaught("Error executing command", thrown[i]) }
                       \cup (IF outcome = "ok" THEN {}
                             ELSE { LogCaught("Failed to send error message to user",
                                              PlatformError(op, outcome)) }))
    /\ Raise(i, None)
    /\ pc' = [pc EXCEPT ![i] = "resolved"]
    /\ UNCHANGED <<now, adapterVars, formatterVars, readyVars, commands, interaction, deferred,
                   downloads, identifyCalls, startTime, idResult>>

Handle(i) ==
    \/ InteractionCreate(i)
    \/ Dispatch(i)
    \/ ExecuteBegin(i)
    \/ Fetch(i)
    \/ ReadBody(i)
    \/ IdentifyCardCall(i)
    \/ IdentifyCardSettle(i)
    \/ EditReply(i)
    \/ ExecuteCatch(i)
    \/ DispatchCatch(i)

Init ==
    /\ now = 0
    /\ ReadyIdle
    /\ AdapterIdle
    /\ FormatterIdle
    /\ InitHandler({ "i1" })

Next == Tick \/ Handle("i1")

Spec == Init /\ [][Next]_vars

(***************************************************************************)
(* Two invocations in flight at once.  Each await of the handler is a      *)
(* point where the other invocation can take a step.                       *)
(***************************************************************************)

Invocations == { "i1", "i2" }

\* The interactions tried: two identify commands with attachments that
\* differ in name, type and URL, and one with a PDF.
ConcurrentInteractions ==
    { [isChatInputCommand |-> TRUE, commandName |-> "identify",
       attachment |-> [name |-> << "c", "a", "r", "d", ".", "j", "p", "g" >>,
                       size |-> 1024, contentType |-> Some("image/jpeg"),
                       url |-> "https://cdn.example/card.jpg"]],
      [isChatInputCommand |-> TRUE, commandName |-> "identify",
       attachment |-> [name |-> << "a", " ", "b", ".", "p", "n", "g" >>,
                       size |-> 2048, contentType |-> Some("image/png"),
                       url |-> "https://cdn.example/a_b.png"]],
      [isChatInputCommand |-> TRUE, commandName |-> "identify",
       attachment |-> [name |-> << "d", "o", "c", ".", "p", "d", "f" >>,
                       size |-> 1024, contentType |-> Some("application/pdf"),
                       url |-> "https://cdn.example/doc.pdf"]] }

\* The answers of the remote service tried: a success with at most one
\* detection, a rate-limit error, or an error of no known class.
ConcurrentRemoteOutcomes ==
    { o \in HandlerRemoteOutcomes :
        IF o.kind = "throw"
        THEN \/ /\ o.error.class = "CardSightAIError"
                /\ o.error.status = Some(429)
                /\ o.error.request = None
             \/ o.error.class \in { "TypeError", "string" }
        ELSE /\ o.data # None
             /\ o.data[1].success = Some(TRUE)
             /\ o.data[1].detections # None
             /\ Len(o.data[1].detections[1]) <= 1 }

HandleConcurrent(i) ==
    \/ InteractionCreateFrom(i, ConcurrentInteractions)
    \/ Dispatch(i)
    \/ ExecuteBegin(i)
    \/ Fetch(i)
    \/ ReadBody(i)
    \/ IdentifyCardCall(i)
    \/ IdentifyCardSettleFrom(i, ConcurrentRemoteOutcomes)
    \/ EditReply(i)
    \/ ExecuteCatch(i)
    \/ DispatchCatch(i)

InitConcurrent ==
    /\ now = 0
    /\ ReadyIdle
    /\ AdapterIdle
    /\ FormatterIdle
    /\ InitHandler(Invocations)

NextConcurrent == \E i \in Invocations : HandleConcurrent(i)

SpecConcurrent == InitConcurrent /\ [][NextConcurrent]_vars

(***************************************************************************)
(* events/ready.ts: the startup coordinator, run once when the client is   *)
(* ready.                                                                  *)
(***************************************************************************)

\* How cardsightClient.health.check() settles.
HealthOutcomes ==
    { [kind |-> "resolve", data |-> Some("ok")],
      [kind |-> "resolve", data |-> None],
      [kind |-> "throw", class |-> "AuthenticationError"],
      [kind |-> "throw", class |-> "CardSightAIError"],
      [kind |-> "throw", class |-> "TypeError"] }

\* How rest.put(Routes.applicationCommands(...)) settles: with the list of
\* the commands registered, with no list, or with an error.
PublishOutcomes ==
    { [kind |-> "resolve", data |-> Some(<< "identify" >>)],
      [kind |-> "resolve", data |-> Some(<<>>)],
      [kind |-> "resolve", data |-> None],
      [kind |-> "throw", class |-> "DiscordAPIError"],
      [kind |-> "throw", class |-> "TypeError"] }

ReadyLog(level, message) == [level |-> level, message |-> message]

ReadyStep(call, body) == [call |-> call, body |-> body, at |-> now]

\* validateCardSightConnection from the moment health.check() settles: what
\* it returns and what it logs.
validateCardSightConnection(outcome) ==
    IF outcome.kind = "resolve"
    THEN IF outcome.data # None
         THEN [value |-> TRUE,
               logs |-> { ReadyLog("info",
                            "CardSight API connection validated successfully") }]
         ELSE [value |-> FALSE, logs |-> {}]
    ELSE [value |-> FALSE,
          logs |-> { ReadyLog("error",
                       IF outcome.class = "AuthenticationError"
                       THEN "Invalid CardSight API key"
                       ELSE "Failed to validate CardSight connection") }]

\* handleReady up to its first await (lines 17-30): without client.user it
\* logs and returns; with it, it sets the activity and starts the health
\* check.
ReadyStart ==
    /\ readyPc = "start"
    /\ IF ~clientUser
       THEN /\ readyLogs' = readyLogs
                              \cup { ReadyLog("error", "Bot user is not available") }
            /\ readyPc' = "resolved"
            /\ UNCHANGED readySteps
       ELSE /\ readyLogs' = readyLogs
                              \cup { ReadyLog("info", "Bot is online"),
                                     ReadyLog("info",
                                        "Validating CardSight API connection...") }
            /\ readySteps' = readySteps \o << ReadyStep("setActivity", None),
                                              ReadyStep("health.check", None) >>
            /\ readyPc' = "health"
    /\ UNCHANGED <<now, adapterVars, formatterVars, handlerVars, clientUser,
                   healthOutcome, isCardSightValid>>

\* registerCommands skipped when the connection could not be validated.
ReadyHealth_StopWhenInvalid ==
    /\ readyPc = "health"
    /\ \E outcome \in HealthOutcomes :
          LET validation == validateCardSightConnection(outcome)
          IN  /\ healthOutcome' = Some(outcome)
              /\ isCardSightValid' = Some(validation.value)
              /\ IF validation.value
                 THEN /\ readyLogs' = readyLogs \cup validation.logs
                           \cup { ReadyLog("info",
                                    "Started refreshing application (/) commands.") }
                      /\ readySteps' = Append(readySteps,
                                              ReadyStep("rest.put", Some(commands)))
                      /\ readyPc' = "publish"
                 ELSE /\ readyLogs' = readyLogs \cup validation.logs
                           \cup { ReadyLog("error",
                                    "Failed to validate CardSight connection - bot will continue but may not work properly") }
                      /\ readyPc' = "resolved"
                      /\ UNCHANGED readySteps
    /\ UNCHANGED <<now, adapterVars, formatterVars, handlerVars, clientUser>>

\* Lines 30-38 and registerCommands lines 44-56: the health check settles,
\* a failed validation is logged, and registerCommands sends the schemas of
\* the commands in the registry.
ReadyHealth ==
    /\ readyPc = "health"
    /\ \E outcome \in HealthOutcomes :
          LET validation == validateCardSightConnection(outcome)
          IN  /\ healthOutcome' = Some(outcome)
              /\ isCardSightValid' = Some(validation.value)
              /\ readyLogs' = readyLogs \cup validation.logs
                   \cup (IF validation.value THEN {}
                         ELSE { ReadyLog("error",
                                  "Failed to validate CardSight connection - bot will continue but may not work properly") })
                   \cup { ReadyLog("info",
                            "Started refreshing application (/) commands.") }
    /\ readySteps' = Append(readySteps, ReadyStep("rest.put", Some(commands)))
    /\ readyPc' = "publish"
    /\ UNCHANGED <<now, adapterVars, formatterVars, handlerVars, clientUser>>

\* registerCommands lines 54-66: rest.put settles; the commands registered
\* are logged, and an error (of the call, or of reading a list that is not
\* there) is caught and logged.
ReadyPublish ==
    /\ readyPc = "publish"
    /\ \E outcome \in PublishOutcomes :
          readyLogs' = readyLogs \cup
             { IF outcome.kind = "resolve" /\ outcome.data # None
               THEN ReadyLog("info",
                       "Successfully registered " \o ToString(Len(outcome.data[1]))
                       \o " application (/) commands globally.")
               ELSE ReadyLog("error", "Failed to register commands") }
    /\ readyPc' = "resolved"
    /\ UNCHANGED <<now, adapterVars, formatterVars, handlerVars, clientUser,
                   readySteps, healthOutcome, isCardSightValid>>

InitReady ==
    /\ now = 0
    /\ AdapterIdle
    /\ FormatterIdle
    /\ InitHandler({})
    /\ readyPc = "start"
    /\ clientUser \in BOOLEAN
    /\ readySteps = <<>>
    /\ healthOutcome = None
    /\ isCardSightValid = None
    /\ readyLogs = {}

NextReady == Tick \/ ReadyStart \/ ReadyHealth \/ ReadyPublish

SpecReady == InitReady /\ [][NextReady]_vars

(***************************************************************************)
(* Properties of identifyCard (checked under SpecAdapter)                  *)
(***************************************************************************)

IcDone == icPc = "done"
IcRemote == icOutcome[1]
IcEnd == icCompletion[1]
IcResult == icCompletion[1].value

\* The remote call did not deliver a usable success response: it threw, the
\* response has no data or no true success flag, or its detections cannot
\* be read.
RemoteFailed(outcome) ==
    \/ outcome.kind = "throw"
    \/ outcome.data = None
    \/ outcome.data[1].success # Some(TRUE)
    \/ outcome.data[1].detections = None
    \/ \E k \in 1..Len(outcome.data[1].detections[1]) :
          outcome.data[1].detections[1][k].card = None

\* C1: identifyCard never raises.  Whatever the remote call does (resolve,
\* throw an AuthenticationError, a CardSightAIError of any status, or any
\* other value), identifyCard ends by returning a result, and every failure
\* is reported in the result's error field with success = false.
C1_NeverRaises ==
    IcDone =>
        /\ IcEnd.kind = "return"
        /\ RemoteFailed(IcRemote) =>
              /\ IcResult.success = FALSE
              /\ IcResult.error # None
              /\ IcResult.error[1] # ""

\* C1 witness: the remote call threw a value that is no API error and
\* identifyCard has ended.
C1_Witness ==
    /\ IcDone
    /\ IcRemote.kind = "throw"
    /\ IcRemote.error.class = "null"
    /\ IcEnd.kind = "return"

\* C2: every result identifyCard returns satisfies: success implies no
\* error; failure implies no detections; error is present exactly when
\* success is false.
C2_ResultInvariant ==
    (IcDone /\ IcEnd.kind = "return") =>
        /\ IcResult.success = TRUE => IcResult.error = None
        /\ IcResult.success = FALSE => IcResult.detections = <<>>
        /\ IcResult.error # None <=> IcResult.success = FALSE

\* C2 witness: a failure result returned for a response that did carry
\* detections.
C2_Witness ==
    /\ IcDone
    /\ IcEnd.kind = "return"
    /\ IcResult.success = FALSE
    /\ IcRemote.kind = "resolve"
    /\ IcRemote.data # None
    /\ IcRemote.data[1].detections # None
    /\ Len(IcRemote.data[1].detections[1]) = 2

\* The bucket a thrown error belongs to, in the priority order of the claim.
Bucket(error) ==
    IF error.class = "AuthenticationError" THEN "auth"
    ELSE IF error.class # "CardSightAIError" THEN "unexpected"
    ELSE IF error.status = None THEN "generic"
    ELSE IF error.status[1] = 429 THEN "rate-limit"
    ELSE IF error.status[1] = 413 THEN "too-large"
    ELSE IF error.status[1] >= 500 THEN "server"
    ELSE "generic"

BucketMessage ==
    [b \in {"auth", "rate-limit", "too-large", "server", "generic", "unexpected"} |->
        CASE b = "auth" -> "Authentication failed. Please check your API key."
          [] b = "rate-limit" -> "Rate limit exceeded. Please try again later."
          [] b = "too-large" -> "Image is too large. Please use a smaller image."
          [] b = "server" -> "CardSight service is temporarily unavailable."
          [] b = "generic" -> "Failed to identify card"
          [] b = "unexpected" -> "An unexpected error occurred"]

\* C3: when the remote call throws, the error message of the result is the
\* one of the first matching bucket: authentication failure (whatever its
\* status), then status 429, then 413, then >= 500, then any other API
\* error (also one without status), then anything else; the six messages
\* are pairwise distinct, so exactly one bucket is chosen.
C3_Classification ==
    (IcDone /\ IcRemote.kind = "throw") =>
        /\ IcEnd.kind = "return"
        /\ IcResult.error = Some(BucketMessage[Bucket(IcRemote.error)])
        /\ \A a, b \in DOMAIN BucketMessage :
              BucketMessage[a] = BucketMessage[b] => a = b

\* C3 witness: an API error with status exactly 500 was classified.
C3_Witness ==
    /\ IcDone
    /\ IcRemote.kind = "throw"
    /\ IcRemote.error.class = "CardSightAIError"
    /\ IcRemote.error.status = Some(500)
    /\ IcResult.error = Some("CardSight service is temporarily unavailable.")

\* C4: when the remote call resolves but the response has no data, or its
\* success flag is missing or false, identifyCard returns success = false,
\* no detections and the error "Card identification failed", a message
\* different from those of a thrown API error and of an unexpected error;
\* none of the response's detections is passed on.
C4_LogicalFailure ==
    (/\ IcDone
     /\ IcRemote.kind = "resolve"
     /\ \/ IcRemote.data = None
        \/ IcRemote.data[1].success \in { None, Some(FALSE) }) =>
        /\ IcEnd.kind = "return"
        /\ IcResult.success = FALSE
        /\ IcResult.detections = <<>>
        /\ IcResult.error = Some("Card identification failed")
        /\ IcResult.error[1] \notin
              { BucketMessage[b] : b \in DOMAIN BucketMessage }

\* C4 witness: a response with data, detections and no success flag.
C4_Witness ==
    /\ IcDone
    /\ IcRemote.kind = "resolve"
    /\ IcRemote.data # None
    /\ IcRemote.data[1].success = None
    /\ IcRemote.data[1].detections # None
    /\ Len(IcRemote.data[1].detections[1]) > 0
    /\ IcResult.error = Some("Card identification failed")

(***************************************************************************)
(* Properties of the formatter (checked under SpecFormatter)               *)
(***************************************************************************)

IdentificationCalls ==
    { k \in 1..Len(fmtCalls) : fmtCalls[k].fn = "createIdentificationEmbed" }

\* The line of the summary for one detection.
SummaryLine(detection) ==
    "**" \o formatCardDisplay(detection.card) \o "**\n"
    \o ConfidenceEmojis[detection.confidence] \o " " \o detection.confidence
    \o " Confidence"

\* C5: createIdentificationEmbed chooses its output by the number of
\* detections alone, whatever result.success is: none gives the fixed
\* no-cards-detected message, one the detailed single-card message, n >= 2
\* a summary with exactly n fields, field i titled "Card i" and describing
\* the i-th detection of the input.
C5_SelectionByCount ==
    \A k \in IdentificationCalls :
        LET embed == fmtCalls[k].embed
            ds == fmtResult.detections
            n == Len(ds)
        IN  /\ n = 0 =>
                  /\ embed.title = ":x: No Cards Detected"
                  /\ embed.description = Some(NoDetectionText)
                  /\ embed.fields = <<>>
            /\ n = 1 =>
                  /\ embed.title = ":camera: Card Identified!"
                  /\ embed.description = None
                  /\ Len(embed.fields) >= 3
                  /\ embed.fields[1] =
                        [name |-> "**Card Details**", inline |-> FALSE,
                         value |-> "**Name:** " \o ds[1].card.name
                                   \o "\n**Card Number:** " \o ds[1].card.number
                                   \o "\n**Year:** " \o ToString(ds[1].card.year)]
                  /\ embed.fields[3].name = "**Confidence**"
            /\ n >= 2 =>
                  /\ embed.title = ":camera: " \o ToString(n) \o " Cards Identified!"
                  /\ Len(embed.fields) = n
                  /\ \A i \in 1..n :
                        /\ embed.fields[i].name = "Card " \o ToString(i)
                        /\ embed.fields[i].value = SummaryLine(ds[i])
            /\ embed = createIdentificationEmbed(
                           [fmtResult EXCEPT !.success = ~@], fmtUrl, fmtCalls[k].at)

\* C5 witness: a summary of three different cards was built for a result
\* whose success flag is false.
C5_Witness ==
    /\ IdentificationCalls # {}
    /\ fmtResult.success = FALSE
    /\ Len(fmtResult.detections) = 3
    /\ fmtResult.detections[1].card.name = "Shohei Ohtani"
    /\ fmtResult.detections[2].card.name = "Mike Trout"
    /\ fmtResult.detections[3].card.name = "Aaron Judge"
    /\ \A k \in IdentificationCalls : Len(fmtCalls[k].embed.fields) = 3

\* C6 as stated: two calls of the formatter on the same result, at any two
\* points in time, yield identical message payloads.
C6_IdenticalPayloads ==
    \A j, k \in 1..Len(fmtCalls) :
        fmtCalls[j].fn = fmtCalls[k].fn => fmtCalls[j].embed = fmtCalls[k].embed

WithoutTimestamp(embed) == [embed EXCEPT !.timestamp = 0]

\* C6 as amended: two calls of createIdentificationEmbed (or of
\* createErrorEmbed) on the same result yield payloads that agree in every
\* part but the timestamp; the timestamp of each is the wall-clock time of
\* its call.
C6_IdenticalButTimestamp ==
    \A j, k \in 1..Len(fmtCalls) :
        /\ fmtCalls[k].embed.timestamp = fmtCalls[k].at
        /\ fmtCalls[j].fn = fmtCalls[k].fn =>
              WithoutTimestamp(fmtCalls[j].embed) = WithoutTimestamp(fmtCalls[k].embed)

\* C6 witness: the single-card message was built twice, at different times.
C6_Witness ==
    /\ Len(fmtCalls) = 2
    /\ fmtCalls[1].fn = "createIdentificationEmbed"
    /\ fmtCalls[2].fn = "createIdentificationEmbed"
    /\ Len(fmtResult.detections) = 1
    /\ fmtCalls[1].at # fmtCalls[2].at
    /\ fmtCalls[1].embed # fmtCalls[2].embed

DisplayBase(card) ==
    ToString(card.year) \o " " \o card.setName \o " - " \o card.name
    \o " #" \o card.number

ParallelSuffix(card) ==
    " (" \o card.parallelName[1]
    \o (IF card.numberedTo # None THEN " /" \o ToString(card.numberedTo[1]) ELSE "")
    \o ")"

\* C7 as stated: formatCardDisplay(card) is "{year} {setName} - {name}
\* #{number}", followed by " ({parallelName})", with " /{numberedTo}" inside
\* the parentheses when numberedTo is present, whenever the card carries a
\* parallel name, and by nothing otherwise.
C7_SuffixWheneverParallelName ==
    fmtDisplay # None =>
        LET card == fmtDisplay[1].card
        IN  fmtDisplay[1].text =
                IF card.parallelName # None
                THEN DisplayBase(card) \o ParallelSuffix(card)
                ELSE DisplayBase(card)

\* C7 as amended: the suffix is appended when the card's isParallel flag is
\* true and it carries a (non-empty) parallel name; a card without the flag
\* gets no suffix even if it carries a parallel name.
C7_SuffixWhenFlaggedParallel ==
    fmtDisplay # None =>
        LET card == fmtDisplay[1].card
            text == fmtDisplay[1].text
        IN  /\ text = IF card.isParallel = Some(TRUE)
                         /\ card.parallelName \notin { None, Some("") }
                      THEN DisplayBase(card) \o ParallelSuffix(card)
                      ELSE DisplayBase(card)
            /\ (card.name = "Mike Trout" /\ card.parallelName = None) =>
                  text = "2023 Topps Chrome - Mike Trout #27"
            /\ (card.name = "Mike Trout" /\ card.parallelName # None) =>
                  text = "2023 Topps Chrome - Mike Trout #27 (Refractor /99)"

\* C7 witness: the Refractor /99 card was formatted.
C7_Witness ==
    /\ fmtDisplay # None
    /\ fmtDisplay[1].card.isParallel = Some(TRUE)
    /\ fmtDisplay[1].card.numberedTo = Some(99)
    /\ fmtDisplay[1].text = "2023 Topps Chrome - Mike Trout #27 (Refractor /99)"

\* C8: for a result with exactly one detection, in the shape identifyCard
\* produces, the single-card message has a parallel block showing the
\* parallel name (and "/N" when numberedTo is present) when the card has
\* parallel information, and has none only when the card has no parallel
\* information.
C8_ParallelBlock ==
    \A k \in IdentificationCalls :
        Len(fmtResult.detections) = 1 =>
            LET card == fmtResult.detections[1].card
                blocks == { i \in 1..Len(fmtCalls[k].embed.fields) :
                              fmtCalls[k].embed.fields[i].name
                                  = "**Parallel Information**" }
            IN  IF card.isParallel = Some(TRUE) /\ card.parallelName # None
                THEN \E i \in blocks :
                        fmtCalls[k].embed.fields[i].value =
                            "**Parallel:** " \o card.parallelName[1]
                            \o (IF card.numberedTo # None
                                THEN "\n**Numbered:** /" \o ToString(card.numberedTo[1])
                                ELSE "")
                ELSE blocks = {}

(***************************************************************************)
(* Properties of the identify command (checked under Spec)                 *)
(***************************************************************************)

\* Interaction i is an invocation of the identify command.
IsIdentify(i) ==
    /\ interaction[i] # None
    /\ interaction[i][1].isChatInputCommand
    /\ interaction[i][1].commandName = "identify"

\* execute has got past its first await (the validation or placeholder
\* reply).
PastFirstReply(i) == pc[i] \notin { "idle", "dispatch", "execute" }

IsHandlerCall(call) == call.by = "handler"
HandlerCalls(i) == SelectSeq(calls[i], IsHandlerCall)

TitleInvalidFile == ":x: Invalid File Type"
TitleTooLarge == ":x: File Too Large"
TitleProcessing == ":mag: Identifying Card..."

AllowListed(contentType) ==
    contentType \in { Some("image/jpeg"), Some("image/jpg"), Some("image/png"),
                      Some("image/webp"), Some("image/gif") }

EightMiB == 8388608

\* No download, no identifyCard call and no processing placeholder.
NeverProcessed(i) ==
    /\ downloads[i] = 0
    /\ identifyCalls[i] = <<>>
    /\ \A k \in 1..Len(calls[i]) : calls[i][k].embed.title # TitleProcessing

\* The handler has sent the processing placeholder as its first reply.
Proceeded(i) ==
    /\ Len(HandlerCalls(i)) >= 1
    /\ HandlerCalls(i)[1].op = "reply"
    /\ HandlerCalls(i)[1].embed.title = TitleProcessing
    /\ ~HandlerCalls(i)[1].ephemeral

\* C9 as stated: an attachment of declared size above 8 MiB never reaches
\* the adapter (no identifyCard call, no download, no placeholder) and the
\* only reply of the handler is the file-too-large message; an attachment
\* of exactly 8 MiB and an allowed type is not rejected.
C9_OnlyTooLargeReply ==
    \A i \in DOMAIN pc :
        IsIdentify(i) =>
            LET attachment == interaction[i][1].attachment
            IN  /\ attachment.size > EightMiB =>
                      /\ NeverProcessed(i)
                      /\ \A k \in 1..Len(HandlerCalls(i)) :
                            HandlerCalls(i)[k].embed.title = TitleTooLarge
                /\ (/\ attachment.size = EightMiB
                    /\ AllowListed(attachment.contentType)
                    /\ PastFirstReply(i)) => Proceeded(i)

\* C9 as amended: an attachment of declared size above 8 MiB never reaches
\* the adapter (no identifyCard call, no download, no placeholder); the
\* handler makes exactly one platform call, an ephemeral reply, which is
\* the file-too-large message when the declared type is allowed and the
\* invalid-file-type message when it is not (the type is checked first); an
\* attachment of exactly 8 MiB and an allowed type is not rejected.
C9_OversizedNeverProcessed ==
    \A i \in DOMAIN pc :
        IsIdentify(i) =>
            LET attachment == interaction[i][1].attachment
            IN  /\ attachment.size > EightMiB =>
                      /\ NeverProcessed(i)
                      /\ Len(HandlerCalls(i)) = IF PastFirstReply(i) THEN 1 ELSE 0
                      /\ \A k \in 1..Len(HandlerCalls(i)) :
                            /\ HandlerCalls(i)[k].op = "reply"
                            /\ HandlerCalls(i)[k].ephemeral
                            /\ HandlerCalls(i)[k].embed.title =
                                  IF AllowListed(attachment.contentType)
                                  THEN TitleTooLarge ELSE TitleInvalidFile
                /\ (/\ attachment.size = EightMiB
                    /\ AllowListed(attachment.contentType)
                    /\ PastFirstReply(i)) => Proceeded(i)

\* C9 witness: an oversized PNG was answered with the file-too-large
\* message and its handling has ended.
C9_Witness ==
    \E i \in DOMAIN pc :
        /\ IsIdentify(i)
        /\ interaction[i][1].attachment.size = EightMiB + 1
        /\ interaction[i][1].attachment.contentType = Some("image/png")
        /\ pc[i] = "resolved"
        /\ Len(calls[i]) = 1
        /\ calls[i][1].embed.title = TitleTooLarge
        /\ calls[i][1].outcome = "ok"

\* C10: an attachment whose declared content type is absent or not
\* allow-listed is rejected before any network call: the handler's only
\* call is the ephemeral invalid-file-type reply, and there is no download
\* and no identifyCard call; every attachment with an allow-listed type and
\* a size of at most 8 MiB proceeds to the processing placeholder.
C10_TypeGate ==
    \A i \in DOMAIN pc :
        IsIdentify(i) =>
            LET attachment == interaction[i][1].attachment
            IN  /\ ~AllowListed(attachment.contentType) =>
                      /\ NeverProcessed(i)
                      /\ Len(HandlerCalls(i)) = IF PastFirstReply(i) THEN 1 ELSE 0
                      /\ \A k \in 1..Len(HandlerCalls(i)) :
                            /\ HandlerCalls(i)[k].op = "reply"
                            /\ HandlerCalls(i)[k].ephemeral
                            /\ HandlerCalls(i)[k].embed.title = TitleInvalidFile
                /\ (/\ AllowListed(attachment.contentType)
                    /\ attachment.size <= EightMiB
                    /\ PastFirstReply(i)) => Proceeded(i)
                /\ ~PastFirstReply(i) => downloads[i] = 0 /\ identifyCalls[i] = <<>>

\* C10 witness: a PDF of allowed size was answered with the invalid-file
\* message and its handling has ended.
C10_Witness ==
    \E i \in DOMAIN pc :
        /\ IsIdentify(i)
        /\ interaction[i][1].attachment.contentType = Some("application/pdf")
        /\ interaction[i][1].attachment.size = 1024
        /\ pc[i] = "resolved"
        /\ Len(calls[i]) = 1
        /\ calls[i][1].embed.title = TitleInvalidFile
        /\ calls[i][1].outcome = "ok"


\* ------------------------------------------------------------------
\* C11: the file-name sanitizer.

\* The character class [a-zA-Z0-9._-], written out.
C11_Allowed ==
    { "a", "b", "c", "d", "e", "f", "g", "h", "i", "j", "k", "l", "m",
      "n", "o", "p", "q", "r", "s", "t", "u", "v", "w", "x", "y", "z",
      "A", "B", "C", "D", "E", "F", "G", "H", "I", "J", "K", "L", "M",
      "N", "O", "P", "Q", "R", "S", "T", "U", "V", "W", "X", "Y", "Z",
      "0", "1", "2", "3", "4", "5", "6", "7", "8", "9", ".", "_", "-" }

IsAllowedChar(c) == c \in C11_Allowed

\* The first 255 elements of a sequence.
First255(seq) == SubSeq(seq, 1, IF Len(seq) < 255 THEN Len(seq) ELSE 255)

\* Every file name an invocation has written to a log entry or passed to
\* identifyCard.
NamesUsed(i) ==
    { e.fileName[1] : e \in { x \in logs[i] : x.fileName # None } }
    \cup { identifyCalls[i][k].filename : k \in 1..Len(identifyCalls[i]) }

PlaceholderPosted(i) ==
    /\ Len(calls[i]) >= 1
    /\ calls[i][1].by = "handler"
    /\ calls[i][1].op = "reply"
    /\ calls[i][1].embed.title = TitleProcessing
    /\ calls[i][1].outcome = "ok"

Ended(i) == pc[i] \in { "resolved", "rejected" }

\* The errors the handler's catch has logged.
CaughtInHandler(i) ==
    { e.error : e \in { x \in logs[i] :
                          x.message = "Failed to process card identification" } }

RetrievalErrors ==
    DownloadErrors \cup NetworkErrors \cup { Some("body read failed") }

\* The positions of the calls that carry the fixed failure message.
FallbackEdits(i) ==
    { k \in 1..Len(calls[i]) :
        calls[i][k].embed.description = Some(MsgProcessFailed) }

\* A message other than the placeholder has reached the user.
TerminalShown(i) ==
    \E k \in 1..Len(calls[i]) :
        /\ calls[i][k].outcome = "ok"
        /\ calls[i][k].embed.title # TitleProcessing

\* C12 as stated: once the placeholder is posted, a failure of the
\* retrieval, the adapter call, the formatting or the result edit is caught
\* in the handler, identifyCard is not called after a failed retrieval, the
\* placeholder is replaced by the fixed failure message, and every
\* invocation that posted a placeholder ends with a message other than the
\* placeholder visible to the user.
C12_PlaceholderAlwaysReplaced ==
    \A i \in DOMAIN pc :
        PlaceholderPosted(i) =>
            /\ (CaughtInHandler(i) \cap RetrievalErrors # {}) =>
                   identifyCalls[i] = <<>>
            /\ CaughtInHandler(i) # {} =>
                   \E k \in FallbackEdits(i) :
                       /\ calls[i][k].op = "editReply"
                       /\ calls[i][k].outcome = "ok"
            /\ Ended(i) => TerminalShown(i)

\* C12, amended: once the placeholder is posted, a failure of the
\* retrieval, the adapter call, the formatting or the result edit is caught
\* in the handler and identifyCard is not called after a failed retrieval;
\* the catch attempts, once, to edit the placeholder to the fixed failure
\* message. When that edit succeeds it is the last call of the invocation
\* and the message is visible; when it fails the exception leaves the
\* handler and the dispatcher attempts a follow-up. The invocation never
\* rejects, it can always take its next step until it has ended, and it
\* ends with a message other than the placeholder visible unless every
\* platform call after the placeholder failed.
C12_FallbackAttempted ==
    \A i \in DOMAIN pc :
        PlaceholderPosted(i) =>
            /\ (CaughtInHandler(i) \cap RetrievalErrors # {}) =>
                   identifyCalls[i] = <<>>
            /\ pc[i] = "exec_catch" => thrown[i] # None
            /\ (CaughtInHandler(i) = {}) = (FallbackEdits(i) = {})
            /\ Cardinality(FallbackEdits(i)) <= 1
            /\ \A k \in FallbackEdits(i) :
                  /\ calls[i][k].by = "handler"
                  /\ calls[i][k].op = "editReply"
                  /\ ~calls[i][k].ephemeral
                  /\ calls[i][k].outcome = "ok" =>
                        /\ k = Len(calls[i])
                        /\ pc[i] = "resolved"
                  /\ calls[i][k].outcome # "ok" =>
                        /\ pc[i] \in { "dispatch_catch", "resolved" }
                        /\ pc[i] = "resolved" =>
                              /\ Len(calls[i]) = k + 1
                              /\ calls[i][k + 1].by = "dispatcher"
                              /\ calls[i][k + 1].op = "followUp"
            /\ pc[i] # "rejected"
            /\ ~Ended(i) => ENABLED Handle(i)
            /\ Ended(i) =>
                  \/ TerminalShown(i)
                  \/ \A k \in 2..Len(calls[i]) : calls[i][k].outcome # "ok"

\* C12 witness: the download failed after the placeholder, identifyCard was
\* not called, and the placeholder was edited to the fixed failure message.
C12_Witness ==
    \E i \in DOMAIN pc :
        /\ PlaceholderPosted(i)
        /\ CaughtInHandler(i) = { Some("Failed to download image: Not Found") }
        /\ identifyCalls[i] = <<>>
        /\ pc[i] = "resolved"
        /\ Len(calls[i]) = 2
        /\ calls[i][2].op = "editReply"
        /\ calls[i][2].outcome = "ok"
        /\ calls[i][2].embed.description = Some(MsgProcessFailed)


\* ------------------------------------------------------------------
\* C13: unknown commands and events that are not chat-input commands.

IsUnknownCommand(i) ==
    /\ interaction[i] # None
    /\ interaction[i][1].isChatInputCommand
    /\ interaction[i][1].commandName # "identify"

IsNotChatInput(i) ==
    /\ interaction[i] # None
    /\ ~interaction[i][1].isChatInputCommand

\* No executor has run for the invocation: nothing was downloaded, nothing
\* identified, and the handler made no platform call.
NoExecutorRun(i) ==
    /\ downloads[i] = 0
    /\ identifyCalls[i] = <<>>
    /\ idResult[i] = None
    /\ HandlerCalls(i) = <<>>
    /\ pc[i] \in { "dispatch", "resolved", "rejected" }

\* C13: for a command name that is not in the registry the dispatcher
\* sends exactly one reply, ephemeral, with the text "Unknown command.";
\* no executor runs and the registry stays as it was.  For an event that is
\* not a chat-input command there is no reply and no executor runs.
C13_UnknownCommand ==
    /\ commands = { "identify" }
    /\ \A i \in DOMAIN pc :
          /\ IsUnknownCommand(i) =>
                /\ NoExecutorRun(i)
                /\ Len(calls[i]) = (IF pc[i] = "dispatch" THEN 0 ELSE 1)
                /\ \A k \in 1..Len(calls[i]) :
                      /\ calls[i][k].by = "dispatcher"
                      /\ calls[i][k].op = "reply"
                      /\ calls[i][k].ephemeral
                      /\ calls[i][k].embed.description = Some("Unknown command.")
                /\ \A e \in logs[i] : e.message = "Unknown command"
          /\ IsNotChatInput(i) =>
                /\ NoExecutorRun(i)
                /\ pc[i] # "rejected"
                /\ calls[i] = <<>>
                /\ logs[i] = {}

\* C13 witness: the command "ping" was answered with the one ephemeral
\* reply and its handling has ended.
C13_Witness ==
    \E i \in DOMAIN pc :
        /\ IsUnknownCommand(i)
        /\ pc[i] = "resolved"
        /\ Len(calls[i]) = 1
        /\ calls[i][1].outcome = "ok"
        /\ calls[i][1].ephemeral
        /\ calls[i][1].embed.description = Some("Unknown command.")

\* ------------------------------------------------------------------
\* C14: the promise of handleInteractionCreate.

\* C14 as stated: handleInteractionCreate never lets an exception
\* propagate: for every interaction, and however the executor or a reply,
\* edit or follow-up call throws, its promise resolves and never rejects.
C14_NeverRejects ==
    \A i \in DOMAIN pc : pc[i] # "rejected"


\* ------------------------------------------------------------------
\* C15: the channel of the dispatcher's error message.

\* The positions of the dispatcher's generic error message.
DispatcherErrors(i) ==
    { k \in 1..Len(calls[i]) :
        /\ calls[i][k].by = "dispatcher"
        /\ calls[i][k].embed.description = Some(MsgCommandError) }

\* An initial reply had been sent before call k.
RepliedBefore(i, k) ==
    \E j \in 1..(k - 1) : calls[i][j].op = "reply" /\ calls[i][j].outcome = "ok"

\* The executor's exception reached the dispatcher's catch.
ExecutorThrew(i) ==
    \E e \in logs[i] : e.message = "Error executing command"

\* C15: when the executor throws, the dispatcher sends its generic error
\* message once, through the channel that matches the reply state of the
\* interaction at that moment: an edit when it is deferred, a follow-up
\* when an initial reply was sent, an initial reply when nothing was sent.
\* After the identify handler's initial reply the message is a follow-up
\* and never a second initial reply, and the platform never refuses the
\* dispatcher's call.
C15_ChannelMatchesReplyState ==
    \A i \in DOMAIN pc :
        /\ pc[i] = "dispatch_catch" => thrown[i] # None /\ ENABLED DispatchCatch(i)
        /\ Cardinality(DispatcherErrors(i)) = (IF ExecutorThrew(i) THEN 1 ELSE 0)
        /\ \A k \in DispatcherErrors(i) :
              /\ calls[i][k].op =
                    (IF deferred[i] THEN "editReply"
                     ELSE IF RepliedBefore(i, k) THEN "followUp" ELSE "reply")
              /\ calls[i][k].outcome # "refused"
              /\ k = Len(calls[i])
        /\ \A j, k \in 1..Len(calls[i]) :
              (/\ j < k
               /\ calls[i][j].op = "reply"
               /\ calls[i][j].outcome = "ok") => calls[i][k].op # "reply"

\* C15 witness: the placeholder was posted, the executor then threw, and
\* the dispatcher's message went out as a follow-up.
C15_Witness ==
    \E i \in DOMAIN pc :
        /\ PlaceholderPosted(i)
        /\ ExecutorThrew(i)
        /\ pc[i] = "resolved"
        /\ \E k \in DispatcherErrors(i) :
              /\ calls[i][k].op = "followUp"
              /\ calls[i][k].outcome = "ok"


\* ------------------------------------------------------------------
\* C16: the order of the precondition checks.

\* The attachment fails a precondition.
Rejectable(attachment) ==
    ~AllowListed(attachment.contentType) \/ attachment.size > EightMiB

\* C16: the content type is checked before the size and the first failing
\* check ends the handler: an attachment with a bad type gets the
\* invalid-file-type message whatever its size, one with a good type and a
\* size above the limit the file-too-large message.  A rejected invocation
\* makes exactly one handler reply, ephemeral; no placeholder, no edit, no
\* download and no identifyCard call follow, and when that reply succeeded
\* it is the only platform call of the invocation.
C16_TypeThenSize ==
    \A i \in DOMAIN pc :
        (IsIdentify(i) /\ PastFirstReply(i)
                       /\ Rejectable(interaction[i][1].attachment)) =>
            LET attachment == interaction[i][1].attachment
                first == calls[i][1]
            IN  /\ Len(calls[i]) >= 1
                /\ first.by = "handler"
                /\ first.op = "reply"
                /\ first.ephemeral
                /\ first.embed.title =
                      (IF ~AllowListed(attachment.contentType)
                       THEN TitleInvalidFile ELSE TitleTooLarge)
                /\ first.outcome = "ok" => Len(calls[i]) = 1 /\ pc[i] = "resolved"
                /\ \A k \in 2..Len(calls[i]) :
                      /\ calls[i][k].by = "dispatcher"
                      /\ calls[i][k].op = "reply"
                /\ \A k \in 1..Len(calls[i]) :
                      /\ calls[i][k].op # "editReply"
                      /\ calls[i][k].embed.title # TitleProcessing
                /\ downloads[i] = 0
                /\ identifyCalls[i] = <<>>
                /\ idResult[i] = None
                /\ pc[i] \notin { "fetch", "body", "identify", "identify_await",
                                  "edit", "exec_catch" }

\* C16 witness: a PDF above the size limit was answered with the
\* invalid-file-type message only.
C16_Witness ==
    \E i \in DOMAIN pc :
        /\ IsIdentify(i)
        /\ interaction[i][1].attachment.contentType = Some("application/pdf")
        /\ interaction[i][1].attachment.size > EightMiB
        /\ pc[i] = "resolved"
        /\ Len(calls[i]) = 1
        /\ calls[i][1].outcome = "ok"
        /\ calls[i][1].ephemeral
        /\ calls[i][1].embed.title = TitleInvalidFile


\* ------------------------------------------------------------------
\* C17: the order of the steps on the happy path.

\* The positions of the processing placeholder among the platform calls.
Placeholders(i) ==
    { k \in 1..Len(calls[i]) : calls[i][k].embed.title = TitleProcessing }

\* The positions of the handler's edit that carries the result.
ResultEdits(i) ==
    { k \in 1..Len(calls[i]) :
        /\ calls[i][k].by = "handler"
        /\ calls[i][k].op = "editReply"
        /\ calls[i][k].embed.description # Some(MsgProcessFailed) }

NameIsUnsafe(name) ==
    \/ Len(name) > 255
    \/ \E k \in 1..Len(name) : name[k] \notin C11_Allowed

\* C18: the only form of the attachment name that is written to a log
\* entry or passed to identifyCard is the sanitized file name; the name as
\* it came in is never logged or passed on when sanitizing changes it, and
\* the entries that record a caught error carry no file name at all.
C18_OnlySanitizedName ==
    \A i \in DOMAIN pc :
        IsIdentify(i) =>
            LET name == interaction[i][1].attachment.name
            IN  /\ NamesUsed(i) \subseteq { SanitizeFilename(name) }
                /\ NameIsUnsafe(name) => name \notin NamesUsed(i)
                /\ \A e \in logs[i] : e.level = "error" => e.fileName = None
                /\ pc[i] # "execute" /\ pc[i] # "dispatch" =>
                      NamesUsed(i) = { SanitizeFilename(name) }

\* C18 witness: for the name ../../etc/passwd.jpg the identifyCard call
\* and the log entries carry .._.._etc_passwd.jpg.
C18_Witness ==
    \E i \in DOMAIN pc :
        /\ IsIdentify(i)
        /\ Len(interaction[i][1].attachment.name) = 20
        /\ interaction[i][1].attachment.name[3] = "/"
        /\ Len(identifyCalls[i]) = 1
        /\ identifyCalls[i][1].filename[3] = "_"
        /\ \E e \in logs[i] :
              /\ e.message = "Starting card identification for file"
              /\ e.fileName = Some(identifyCalls[i][1].filename)


\* ------------------------------------------------------------------
\* C19: no retry, and how often a failure is shown.

\* The positions of the error messages that reached the user.
ErrorsShown(i) ==
    { k \in 1..Len(calls[i]) :
        /\ calls[i][k].outcome = "ok"
        /\ calls[i][k].embed.title \in { ":x: Error", TitleInvalidFile, TitleTooLarge } }

\* The positions of the calls that tried to send an error message.
ErrorsTried(i) ==
    { k \in 1..Len(calls[i]) :
        calls[i][k].embed.title \in { ":x: Error", TitleInvalidFile, TitleTooLarge } }

\* The message for a successful result reached the user.
SuccessShown(i) ==
    \E k \in ResultEdits(i) :
        /\ calls[i][k].outcome = "ok"
        /\ idResult[i] # None
        /\ idResult[i][1].success

\* The invocation has ended and not with the message of a successful
\* result.
FailedInvocation(i) == IsIdentify(i) /\ Ended(i) /\ ~SuccessShown(i)

\* C19 as stated: there is no retry (at most one download and at most one
\* remote identify call per invocation) and every failed invocation ends
\* with exactly one error message shown to the user, never none and never
\* two.
C19_FailureShownExactlyOnce ==
    \A i \in DOMAIN pc :
        /\ downloads[i] <= 1
        /\ Len(identifyCalls[i]) <= 1
        /\ FailedInvocation(i) => Cardinality(ErrorsShown(i)) = 1

\* C19, amended: there is no retry (at most one download and at most one
\* remote identify call per invocation) and the user is shown at most one
\* error message per invocation, and none next to the message of a
\* successful result.  A failed invocation ends with exactly one error
\* message shown unless the platform calls that carried it failed: the
\* handler's own message, then for a failed result edit the fallback edit,
\* then the dispatcher's message, three attempts at most, the last of them
\* failed.
C19_FailureShownAtMostOnce ==
    \A i \in DOMAIN pc :
        /\ downloads[i] <= 1
        /\ Len(identifyCalls[i]) <= 1
        /\ Cardinality(ErrorsShown(i)) <= 1
        /\ Cardinality(ErrorsTried(i)) <= 3
        /\ SuccessShown(i) => ErrorsShown(i) = {}
        /\ \A k \in ErrorsShown(i) : k = Len(calls[i]) /\ Ended(i)
        /\ FailedInvocation(i) =>
              \/ Cardinality(ErrorsShown(i)) = 1
              \/ /\ Len(calls[i]) >= 1
                 /\ calls[i][Len(calls[i])].by = "dispatcher"
                 /\ calls[i][Len(calls[i])].outcome = "failed"
                 /\ \A k \in ErrorsTried(i) : calls[i][k].outcome = "failed"

\* C19 witness: the remote service answered with a rate-limit error, after
\* one download and one identifyCard call, and the one error message was
\* shown.
C19_Witness ==
    \E i \in DOMAIN pc :
        /\ FailedInvocation(i)
        /\ downloads[i] = 1
        /\ Len(identifyCalls[i]) = 1
        /\ idResult[i] # None
        /\ idResult[i][1].error = Some(MsgRateLimit)
        /\ Cardinality(ErrorsShown(i)) = 1
        /\ Len(calls[i]) = 2
        /\ calls[i][2].embed.description = Some(MsgRateLimit)


\* ------------------------------------------------------------------
\* C20: invocations in flight at the same time.

\* Everything an invocation holds: its interaction, its position, its
\* locals and what it has sent and logged.
LocalState(i) ==
    << pc[i], interaction[i], replied[i], deferred[i], calls[i], downloads[i],
       identifyCalls[i], startTime[i], idResult[i], logs[i], thrown[i] >>

\* What the handler has sent and passed on is computed from the
\* invocation's own attachment and its own result.
FromOwnInputs(i) ==
    LET attachment == interaction[i][1].attachment
    IN  /\ \A k \in 1..Len(identifyCalls[i]) :
              /\ identifyCalls[i][k].filename = SanitizeFilename(attachment.name)
              /\ identifyCalls[i][k].mimeType = attachment.contentType
        /\ \A e \in logs[i] :
              e.fileName \in { None, Some(SanitizeFilename(attachment.name)) }
        /\ Len(calls[i]) >= 1 =>
              calls[i][1].embed.title =
                 (IF ~AllowListed(attachment.contentType) THEN TitleInvalidFile
                  ELSE IF attachment.size > EightMiB THEN TitleTooLarge
                  ELSE TitleProcessing)
        /\ \A k \in ResultEdits(i) :
              /\ idResult[i] # None
              /\ calls[i][k].embed =
                    (IF idResult[i][1].success
                     THEN createIdentificationEmbed(idResult[i][1], Some(attachment.url),
                                                    calls[i][k].embed.timestamp)
                     ELSE createErrorEmbed(idResult[i][1].error[1],
                                           idResult[i][1].requestId,
                                           calls[i][k].embed.timestamp))

\* A step changes the state of one invocation at most, and never the
\* command registry.
OneInvocationPerStep ==
    /\ commands' = commands
    /\ \A i, j \in DOMAIN pc :
          i # j => (LocalState(i)' = LocalState(i) \/ LocalState(j)' = LocalState(j))

\* C20: when two invocations are in flight at once, the messages of each
\* are computed from its own attachment and its own result and are sent on
\* its own interaction; a step of one invocation leaves the state of the
\* other as it was; and the command registry is never changed after
\* startup.
C20_Isolation ==
    /\ [](\A i \in DOMAIN pc : IsIdentify(i) => FromOwnInputs(i))
    /\ [](commands = { "identify" })
    /\ [][OneInvocationPerStep]_vars

\* C20 witness: two invocations with different attachments are in flight
\* together; one has delivered the message for its detected card with its
\* own URL as thumbnail while the other, past its own placeholder, holds a
\* failed result of its own and has not yet edited.
C20_Witness ==
    \E i, j \in DOMAIN pc :
        /\ i # j
        /\ IsIdentify(i)
        /\ IsIdentify(j)
        /\ interaction[i][1].attachment # interaction[j][1].attachment
        /\ pc[i] = "resolved"
        /\ SuccessShown(i)
        /\ Len(idResult[i][1].detections) = 1
        /\ calls[i][2].embed.thumbnail = Some(interaction[i][1].attachment.url)
        /\ pc[j] = "edit"
        /\ PlaceholderPosted(j)
        /\ ~idResult[j][1].success


\* ------------------------------------------------------------------
\* C21: what the user sees of an exception.

\* What the user is sent, in order: each platform call without the time
\* it was made at.
Visible(i) ==
    [k \in 1..Len(calls[i]) |->
        [by |-> calls[i][k].by, op |-> calls[i][k].op,
         ephemeral |-> calls[i][k].ephemeral, outcome |-> calls[i][k].outcome,
         title |-> calls[i][k].embed.title,
         description |-> calls[i][k].embed.description,
         fields |-> calls[i][k].embed.fields,
         footer |-> calls[i][k].embed.footer,
         thumbnail |-> calls[i][k].embed.thumbnail]]

\* identifyCard caught an error that is neither an AuthenticationError nor
\* a CardSightAIError.
UnexpectedInIdentify(i) ==
    \E e \in logs[i] : e.message = "Unexpected error during card identification"

\* The course of an invocation with the content of every exception left
\* out: its interaction, how far it got, what it called, how each platform
\* call ended, where errors were caught, and the result of the remote
\* service when that was not an unexpected error.
Course(i) ==
    << interaction[i], pc[i], downloads[i], Len(identifyCalls[i]),
       [k \in 1..Len(calls[i]) |-> << calls[i][k].by, calls[i][k].outcome >>],
       { e.message : e \in logs[i] },
       IF UnexpectedInIdentify(i) THEN None ELSE idResult[i] >>

\* The texts of the errors an invocation has caught and logged.
CaughtTexts(i) ==
    { e.error : e \in { x \in logs[i] : "error" \in DOMAIN x } }

\* C21: a transport or unexpected error shows the user nothing of itself.
\* Two invocations that differ only in the content of the exceptions
\* raised during download, identification or command execution send the
\* same messages, and the message is the fixed text of the handler's
\* fallback, of identifyCard's unexpected-error result or of the
\* dispatcher's fallback, with no footer and no text of the exception.
C21_NoExceptionDetailShown ==
    /\ \A i, j \in DOMAIN pc :
          (IsIdentify(i) /\ IsIdentify(j) /\ Course(i) = Course(j)) =>
              Visible(i) = Visible(j)
    /\ \A i \in DOMAIN pc :
          IsIdentify(i) =>
              /\ \A k \in 1..Len(calls[i]) :
                    calls[i][k].embed.description \notin CaughtTexts(i)
              /\ \A k \in FallbackEdits(i) :
                    /\ calls[i][k].embed.title = ":x: Error"
                    /\ calls[i][k].embed.footer = None
                    /\ calls[i][k].embed.fields = <<>>
              /\ CaughtInHandler(i) # {} => FallbackEdits(i) # {}
              /\ UnexpectedInIdentify(i) =>
                    /\ idResult[i] # None
                    /\ idResult[i][1].error = Some("An unexpected error occurred")
                    /\ idResult[i][1].requestId = None
                    /\ \A k \in ResultEdits(i) :
                          /\ calls[i][k].embed.description =
                                Some("An unexpected error occurred")
                          /\ calls[i][k].embed.footer = None
                          /\ calls[i][k].embed.fields = <<>>
              /\ \A k \in DispatcherErrors(i) :
                    /\ calls[i][k].embed.title = ":x: Error"
                    /\ calls[i][k].embed.footer = None
                    /\ calls[i][k].embed.fields = <<>>

\* C21 witness: two invocations with the same attachment whose downloads
\* were rejected with different errors have both ended, and both show the
\* placeholder edited to the same fixed failure message.
C21_Witness ==
    \E i, j \in DOMAIN pc :
        /\ IsIdentify(i)
        /\ IsIdentify(j)
        /\ interaction[i] = interaction[j]
        /\ CaughtInHandler(i) = { Some("fetch failed") }
        /\ CaughtInHandler(j) = { Some("getaddrinfo ENOTFOUND cdn.example") }
        /\ pc[i] = "resolved"
        /\ pc[j] = "resolved"
        /\ Course(i) = Course(j)
        /\ Len(calls[i]) = 2
        /\ calls[i][2].outcome = "ok"
        /\ calls[i][2].embed.description = Some(MsgProcessFailed)
        /\ Visible(i) = Visible(j)


\* ------------------------------------------------------------------
\* C22: the dispatcher's own error replies.

\* The positions of the platform calls the dispatcher has made.
DispatcherCalls(i) ==
    { k \in 1..Len(calls[i]) : calls[i][k].by = "dispatcher" }

\* The dispatcher has met an error of its own: a command it does not know,
\* or an exception of the executor.
DispatcherError(i) ==
    \/ IsUnknownCommand(i) /\ pc[i] # "dispatch"
    \/ ExecutorThrew(i)

\* C22 as stated: an unknown command or an exception of the handler always
\* produces a reply that the invoking user sees and that is ephemeral, in
\* every reply state of the interaction and whether or not the platform
\* call succeeds.
C22_AlwaysVisibleAndPrivate ==
    \A i \in DOMAIN pc :
        DispatcherError(i) =>
            \E k \in DispatcherCalls(i) :
                /\ calls[i][k].ephemeral
                /\ calls[i][k].outcome = "ok"

\* C22, amended: for an unknown command or an exception of the handler the
\* dispatcher makes exactly one platform call, a reply when nothing was
\* sent and a follow-up when the handler had replied, always with the
\* ephemeral flag and never refused by the platform.  The user sees the
\* message when that call succeeds; when it fails nothing is shown, and
\* the failure is logged for a handler exception and rejects the
\* dispatcher's promise for an unknown command.
C22_OnePrivateAttempt ==
    \A i \in DOMAIN pc :
        /\ Cardinality(DispatcherCalls(i)) = (IF DispatcherError(i) THEN 1 ELSE 0)
        /\ \A k \in DispatcherCalls(i) :
              /\ k = Len(calls[i])
              /\ calls[i][k].ephemeral
              /\ calls[i][k].op \in { "reply", "followUp" }
              /\ (calls[i][k].op = "followUp") = RepliedBefore(i, k)
              /\ calls[i][k].outcome \in { "ok", "failed" }
              /\ calls[i][k].outcome = "ok" => pc[i] = "resolved"
              /\ calls[i][k].outcome = "failed" =>
                    IF IsUnknownCommand(i)
                    THEN pc[i] = "rejected"
                    ELSE /\ pc[i] = "resolved"
                         /\ \E e \in logs[i] :
                               e.message = "Failed to send error message to user"

\* C22 witness: the handler's first reply failed, so nothing had been
\* sent, and the dispatcher's ephemeral reply reached the user.
C22_Witness ==
    \E i \in DOMAIN pc :
        /\ IsIdentify(i)
        /\ ExecutorThrew(i)
        /\ Len(calls[i]) = 2
        /\ calls[i][1].outcome = "failed"
        /\ DispatcherCalls(i) = { 2 }
        /\ calls[i][2].op = "reply"
        /\ calls[i][2].ephemeral
        /\ calls[i][2].outcome = "ok"
        /\ pc[i] = "resolved"


\* ------------------------------------------------------------------
\* C23: the reply protocol of one interaction.

\* An initial reply on the interaction had succeeded before call k, by
\* whichever of the handler and the dispatcher made it.
InitialReplySent(i, k) ==
    \E j \in 1..Len(calls[i]) :
        /\ j < k
        /\ calls[i][j].op = "reply"
        /\ calls[i][j].outcome = "ok"

\* C23: on any one interaction, and whichever platform calls fail, no
\* reply() is made after an initial reply on it has succeeded, and no
\* editReply() or followUp() is made unless an initial reply on it has
\* succeeded or it is deferred; the platform never has to refuse a call.
C23_ReplyProtocol ==
    \A i \in DOMAIN pc :
        \A k \in 1..Len(calls[i]) :
            /\ calls[i][k].op = "reply" => ~InitialReplySent(i, k)
            /\ calls[i][k].op \in { "editReply", "followUp" } =>
                  InitialReplySent(i, k) \/ deferred[i]
            /\ calls[i][k].op \in { "reply", "editReply", "followUp" }
            /\ calls[i][k].outcome # "refused"

\* C23 witness: after the placeholder both the result edit and the
\* fallback edit failed, and the dispatcher then sent a follow-up: four
\* calls on one interaction, a reply followed by two edits and a follow-up.
C23_Witness ==
    \E i \in DOMAIN pc :
        /\ Len(calls[i]) = 4
        /\ calls[i][1].op = "reply"
        /\ calls[i][1].outcome = "ok"
        /\ calls[i][2].op = "editReply"
        /\ calls[i][2].outcome = "failed"
        /\ calls[i][3].op = "editReply"
        /\ calls[i][3].outcome = "failed"
        /\ calls[i][4].op = "followUp"
        /\ pc[i] = "resolved"


\* ------------------------------------------------------------------
\* C24: the startup coordinator.

\* The positions in readySteps of the calls of one kind.
StepsOf(call) == { k \in 1..Len(readySteps) : readySteps[k].call = call }

\* handleReady has got past the health check.
PastHealth == readyPc \in { "publish", "resolved" }

\* C24: with client.user set, handleReady first runs the health check and
\* then sends the command schemas, each exactly once, the second after the
\* first has settled and whatever it settled with (healthy, unhealthy or
\* throwing); what is sent is the schemas of the registry.  Neither a
\* failed health check nor a failed publication makes handleReady reject.
\* Without client.user it makes neither call.
C24_HealthThenPublishOnce ==
    /\ readyPc # "rejected"
    /\ Cardinality(StepsOf("health.check")) <= 1
    /\ Cardinality(StepsOf("rest.put")) <= 1
    /\ \A h \in StepsOf("health.check"), p \in StepsOf("rest.put") :
          h < p /\ readySteps[h].at <= readySteps[p].at
    /\ StepsOf("rest.put") # {} => healthOutcome # None
    /\ \A p \in StepsOf("rest.put") : readySteps[p].body = Some({ "identify" })
    /\ (clientUser /\ readyPc # "start") =>
          Cardinality(StepsOf("health.check")) = 1
    /\ (clientUser /\ PastHealth) =>
          /\ healthOutcome # None
          /\ isCardSightValid =
                Some(healthOutcome[1].kind = "resolve" /\ healthOutcome[1].data # None)
          /\ Cardinality(StepsOf("rest.put")) = 1
    /\ ~clientUser =>
          /\ readySteps = <<>>
          /\ healthOutcome = None
          /\ readyPc \in { "start", "resolved" }
    /\ commands = { "identify" }

\* C24 witness: with client.user set the health check threw, the schemas
\* were sent once all the same, that call failed too, and handleReady has
\* returned.
C24_Witness ==
    /\ clientUser
    /\ readyPc = "resolved"
    /\ healthOutcome # None
    /\ healthOutcome[1].kind = "throw"
    /\ isCardSightValid = Some(FALSE)
    /\ Len(readySteps) = 3
    /\ readySteps[2].call = "health.check"
    /\ readySteps[3].call = "rest.put"
    /\ ReadyLog("error", "Failed to register commands") \in readyLogs

====
